---- MODULE Spec2Model ----
(***************************************************************************)
(* Model of the check-and-notify cycle of splatnet-shop-alerts:            *)
(* pages/api/check-and-notify.ts (the handler and its helpers) and the     *)
(* storage and push helpers of lib/database_utils.ts it calls.             *)
(*                                                                         *)
(* The persistent store (server cache, users.last_notified_expiration,     *)
(* subscriptions) survives a process termination; everything else is the   *)
(* state of one handler invocation and of the promises it started.         *)
(***************************************************************************)
EXTENDS Integers, Sequences, FiniteSets, TLC

(***************************************************************************)
(* Bounds of the model.                                                    *)
(***************************************************************************)
\* Date.now() takes the values 0..MaxTime.
MaxTime == 2

\* The calls of a storage helper made one after the other.
MaxCalls == 3

\* The requests the endpoint receives when requests may overlap.
MaxRuns == 2

(***************************************************************************)
(* Characters and strings.  A string is a sequence of one-character        *)
(* strings, so that the regular expression of getUsersToBeNotified and the *)
(* replacements of formatCol act on characters.                            *)
(***************************************************************************)
UpperChars == <<"A","B","C","D","E","F","G","H","I","J","K","L","M",
                "N","O","P","Q","R","S","T","U","V","W","X","Y","Z">>
LowerChars == <<"a","b","c","d","e","f","g","h","i","j","k","l","m",
                "n","o","p","q","r","s","t","u","v","w","x","y","z">>
DigitChars == <<"0","1","2","3","4","5","6","7","8","9">>

Range(s) == {s[i] : i \in DOMAIN s}

\* /^[A-Za-z0-9-+()&' ]*$/
AllowedChars ==
  Range(UpperChars) \cup Range(LowerChars) \cup Range(DigitChars)
    \cup {"-", "+", "(", ")", "&", "'", " "}

\* A test that every name passes.
anyCharsPattern(name) == TRUE

allowedCharsPattern(name) == \A i \in DOMAIN name : name[i] \in AllowedChars

toLowerCase(c) ==
  IF c \in Range(UpperChars)
    THEN LowerChars[CHOOSE i \in DOMAIN UpperChars : UpperChars[i] = c]
    ELSE c

\* input.replace(/\(| |\)|-/g, "").toLowerCase()
formatCol(input) ==
  LET kept == SelectSeq(input, LAMBDA c : c \notin {"(", " ", ")", "-"})
  IN  [i \in DOMAIN kept |-> toLowerCase(kept[i])]

(***************************************************************************)
(* Gear.  The inventory source serves subsets of GearPool; a gear item is  *)
(* identified by its id.                                                   *)
(***************************************************************************)
Gear(id, name, rarity, type, brand, ability, expiration) ==
  [id |-> id, name |-> name, rarity |-> rarity, type |-> type,
   brand |-> brand, ability |-> ability, expiration |-> expiration]

HeadGear == <<"H","e","a","d","G","e","a","r">>
ShoesGear == <<"S","h","o","e","s","G","e","a","r">>
Zink == <<"Z","i","n","k">>
KrakOn == <<"K","r","a","k","-","O","n">>
InkSaverMain == <<"I","n","k"," ","S","a","v","e","r"," ","(","M","a","i","n",")">>
RunSpeedUp == <<"R","u","n"," ","S","p","e","e","d"," ","U","p">>

GearPool ==
  { Gear(1, <<"C","a","p">>,         1, HeadGear,  KrakOn, InkSaverMain, 1),
    Gear(2, <<"H","a","t"," ","+">>, 2, HeadGear,  Zink,   RunSpeedUp,   2),
    Gear(3, <<"M","r",".","X">>,     1, ShoesGear, Zink,   InkSaverMain, 2) }

GearIDs == {g.id : g \in GearPool}

\* The payloads the inventory source serves.
Inventories == { {1}, {1, 2}, {2, 3} }
GearOf(id) == CHOOSE g \in GearPool : g.id = id
Expiration(id) == GearOf(id).expiration

(***************************************************************************)
(* Users, filters and subscriptions as rows of the database tables.        *)
(***************************************************************************)
UserIDs == {1, 2}
Endpoints == {1, 2}

\* The values of GEAR_TYPES, GEAR_BRANDS and GEAR_ABILITIES the model uses.
GEAR_TYPES == {HeadGear, ShoesGear}
GEAR_BRANDS == {KrakOn, Zink}
GEAR_ABILITIES == {InkSaverMain, RunSpeedUp}

\* The flag columns of the filters table: one per value of the three lists.
FlagColumns ==
  {formatCol(x) : x \in GEAR_ABILITIES \cup GEAR_BRANDS \cup GEAR_TYPES}

\* A row of the filters table: filterToTableData.  cols holds the formatted
\* column names whose flag is TRUE.
FilterRow(id, gearName, rarity, types, brands, abilities) ==
  [id |-> id, name |-> gearName, rarity |-> rarity,
   typeWildcard |-> (types = {}),
   abilityWildcard |-> (abilities = {}),
   brandWildcard |-> (brands = {}),
   cols |-> {formatCol(x) : x \in GEAR_ABILITIES \cap abilities}
              \cup {formatCol(x) : x \in GEAR_BRANDS \cap brands}
              \cup {formatCol(x) : x \in GEAR_TYPES \cap types}]

FiltersTable ==
  { FilterRow(1, <<>>, 0, {}, {}, {}),
    FilterRow(2, <<>>, 1, {}, {Zink}, {}) }

\* users_to_filters
UsersToFilters == { [user |-> 1, filter |-> 1], [user |-> 2, filter |-> 2] }

InitialSubscriptions ==
  { [user |-> 1, endpoint |-> 1],
    [user |-> 2, endpoint |-> 1],
    [user |-> 2, endpoint |-> 2] }

VARIABLES
  \* ---- the persistent store ----
  cache,          \* server cache row: <<>> (no row) or <<set of gear ids>>
  lastNotified,   \* users.last_notified_expiration: <<>> (NULL) or <<n>>
  subscriptions,  \* rows of the subscriptions table
  \* ---- the environment ----
  now,            \* Date.now()
  \* ---- one handler invocation ----
  pc,             \* where the handler is
  status,         \* the response status, 0 while none was sent
  cachedGear,     \* Gear[] of the cached data
  fetchedRaw,     \* fetchedRawGearData
  newGear,        \* getNewGearItems(cachedGear, fetchedGear)
  lookups,        \* per-gear lookup promises: "pending" | "done" | "rejected"
  gearToUserMap,  \* Map<Gear, Map<user>> in insertion order
  allUsers,       \* keys of allUserMap in insertion order
  idx,            \* position of the for-loop over allUserMap
  latest,         \* latestExpiration of each dispatched user
  sends,          \* trySendNotification calls in flight
  task,           \* per user, the promise pushed onto promises
  wmWrites,       \* updateLastNotifiedExpiration calls in flight
  counters,       \* numAlreadyNotified, numNoSubscriber, devices*
  \* ---- history, read by the properties only ----
  hist,
  pruned,         \* subscriptions a permanent failure removed, not added since
  \* ---- one call of a helper on its own ----
  probe           \* the arguments of the call and what it returned

store == <<cache, lastNotified, subscriptions>>
cycle == <<pc, status, cachedGear, fetchedRaw, newGear, lookups, gearToUserMap,
           allUsers, idx, latest, sends, task, wmWrites, counters>>
job == <<cache, lastNotified, subscriptions, now, pc, status, cachedGear,
         fetchedRaw, newGear, lookups, gearToUserMap, allUsers, idx, latest,
         sends, task, wmWrites, counters, hist, pruned>>
vars == <<cache, lastNotified, subscriptions, now, pc, status, cachedGear,
          fetchedRaw, newGear, lookups, gearToUserMap, allUsers, idx, latest,
          sends, task, wmWrites, counters, hist, pruned, probe>>


(***************************************************************************)
(* Pure helpers of the handler and of the storage layer.                   *)
(***************************************************************************)
\* The gear list of a raw payload, sorted by expiration, ascending
\* (lib/gear_loader.ts; check-and-notify.ts line 157 relies on the order).
RECURSIVE rawGearDataToGearList(_)
rawGearDataToGearList(raw) ==
  IF raw = {} THEN <<>>
  ELSE LET first == CHOOSE g \in raw :
                      \A h \in raw :
                        \/ Expiration(g) < Expiration(h)
                        \/ Expiration(g) = Expiration(h) /\ g <= h
       IN  <<first>> \o rawGearDataToGearList(raw \ {first})

\* A diff that reports every fetched item.
getFetchedGearItems(cached, fetched) == fetched

\* The fetched items whose identity is not among the cached ones, in the
\* order of the fetched list (lib/gear_loader.ts).
getNewGearItems(cached, fetched) ==
  SelectSeq(fetched, LAMBDA g : g \notin Range(cached))

\* The WHERE clause without its wildcard alternatives.
FilterMatchesWithoutWildcards(f, gear) ==
  /\ f.rarity <= gear.rarity
  /\ (f.name = <<>> \/ f.name = gear.name)
  /\ formatCol(gear.ability) \in f.cols
  /\ formatCol(gear.type) \in f.cols
  /\ formatCol(gear.brand) \in f.cols

\* The WHERE clause of matchingFilters in getUsersToBeNotified.
FilterMatches(f, gear) ==
  /\ f.rarity <= gear.rarity
  /\ (f.name = <<>> \/ f.name = gear.name)
  /\ (f.abilityWildcard \/ formatCol(gear.ability) \in f.cols)
  /\ (f.typeWildcard \/ formatCol(gear.type) \in f.cols)
  /\ (f.brandWildcard \/ formatCol(gear.brand) \in f.cols)

\* A set of user ids as the key order of a Map built from the rows.
RECURSIVE RowOrder(_)
RowOrder(S) ==
  IF S = {} THEN <<>>
  ELSE LET u == CHOOSE x \in S : \A y \in S : x <= y
       IN  <<u>> \o RowOrder(S \ {u})

\* The query text names the flag columns of the gear's ability, type and
\* brand (lines 939-941); the database rejects a query that names a column
\* the filters table does not have.
QueryNamesColumns(gear) ==
  {formatCol(gear.ability), formatCol(gear.type), formatCol(gear.brand)}
    \subseteq FlagColumns

\* WITH matchingFilters AS (SELECT filter_id FROM filters WHERE ...)
matchingFilters(filters, gear) ==
  {f.id : f \in {f \in filters : FilterMatches(f, gear)}}

\* WITH matchingUserIDs AS (SELECT user_id FROM users_to_filters,
\* matchingFilters WHERE ...): one row per link to a matching filter.
RECURSIVE matchingUserIDs(_, _, _)
matchingUserIDs(links, filters, gear) ==
  LET joined == {l \in links : l.filter \in matchingFilters(filters, gear)}
  IN  IF joined = {} THEN <<>>
      ELSE LET l == CHOOSE x \in joined : \A y \in joined :
                      \/ x.user < y.user
                      \/ x.user = y.user /\ x.filter <= y.filter
           IN  <<l.user>> \o matchingUserIDs(links \ {l}, filters, gear)

\* The rows of matchingUserIDs as they are.
EveryRow(rows) == rows

\* SELECT DISTINCT ON (user_id): one row per user id.
DistinctOn(rows) == RowOrder(Range(rows))

\* getUsersToBeNotified on a filters table and its links: the error of the
\* allow-list check, the error of the rejected query, or the keys of the
\* userMap built from the rows.
UsersToBeNotified(links, filters, gear) ==
  IF ~allowedCharsPattern(gear.name)
    THEN [error |-> "IllegalArgumentError", queried |-> FALSE, users |-> <<>>]
  ELSE IF ~QueryNamesColumns(gear)
    THEN [error |-> "QueryError", queried |-> TRUE, users |-> <<>>]
  ELSE [error |-> "", queried |-> TRUE,
        users |-> DistinctOn(matchingUserIDs(links, filters, gear))]

\* The user ids getUsersToBeNotified returns for a gear of the pool whose
\* name passed the allow-list check.
getUsersToBeNotified(g) ==
  Range(DistinctOn(matchingUserIDs(UsersToFilters, FiltersTable, GearOf(g))))

\* Every gear of the map, whoever its users are.
getEveryGear(map, userID) == [i \in DOMAIN map |-> map[i].gear]

\* getUserGear: the gears of the map, in insertion order, that have the user.
getUserGear(map, userID) ==
  LET hit == SelectSeq(map, LAMBDA e : userID \in e.users)
  IN  [i \in DOMAIN hit |-> hit[i].gear]

\* An aggregation that holds every user of the users table.
everyUser(map) == RowOrder(UserIDs)

\* An aggregation that keeps the users of the last map only.
lastUserMap(map) ==
  IF map = <<>> THEN <<>> ELSE RowOrder(map[Len(map)].users)

\* aggregateUsers: new Map([...allUserMap, ...userMap]) keeps a key at the
\* position of its first insertion.
RECURSIVE aggregateUsers(_)
aggregateUsers(map) ==
  IF map = <<>> THEN <<>>
  ELSE LET before == aggregateUsers(SubSeq(map, 1, Len(map) - 1))
           added  == RowOrder(map[Len(map)].users \ Range(before))
       IN  before \o added

\* let latestExpiration = userGear[userGear.length - 1].expiration;
latestExpirationOf(userGear) == Expiration(userGear[Len(userGear)])

\* getLastNotifiedExpiration: -1 for NULL.  The column is a varchar that
\* holds the decimal digits of the number written; the comparison of line
\* 204 converts it back to the number.
getLastNotifiedExpiration(userID) ==
  IF lastNotified[userID] # <<>> THEN lastNotified[userID][1] ELSE -1

\* getUserSubscriptions: the endpoints of the user's rows.
getUserSubscriptions(userID) ==
  {r.endpoint : r \in {r \in subscriptions : r.user = userID}}

\* The guard of line 158 with <= in place of <.
TooEarlyOrNow(gearList, t) ==
  Len(gearList) > 0 /\ t <= Expiration(gearList[1])

\* cachedGear.length > 0 && Date.now() < cachedGear[0].expiration
TooEarly(gearList, t) ==
  Len(gearList) > 0 /\ t < Expiration(gearList[1])

\* The comparison of line 204 with < in place of <=.
AlreadyNotifiedStrict(latestExpiration, stored) == latestExpiration < stored

\* latestExpiration <= (await getLastNotifiedExpiration(client, userID))
AlreadyNotified(latestExpiration, stored) == latestExpiration <= stored

\* The values of ACTION_SECRET ("" for unset) and of the authorization
\* header ("undefined" for a request without one).
SecretKeys == {"", "secret"}
ProvidedKeys == {"undefined", "secret", "other"}

\* The check of lines 135-144 accepting every request that has a header.
AuthorizedByAnyKey(secretKey, providedKey) ==
  secretKey = "" \/ providedKey # "undefined"

\* The check of lines 135-144 without its first branch.
AuthorizedByEqualKey(secretKey, providedKey) ==
  secretKey = providedKey

\* secretKey unset, or equal to the authorization header.
Authorized(secretKey, providedKey) ==
  secretKey = "" \/ secretKey = providedKey

\* A join that resolves with the first pushed promise that is fulfilled.
JoinAnyResolved ==
  \/ \A u \in UserIDs : task[u] = "none"
  \/ \E u \in UserIDs : task[u] = "fulfilled"

\* await Promise.all(promises) resolves: every pushed promise is fulfilled.
JoinResolved == \A u \in UserIDs : task[u] \in {"none", "fulfilled"}

\* await Promise.all(promises) rejects: some pushed promise is rejected.
JoinRejected == \E u \in UserIDs : task[u] = "rejected"

(***************************************************************************)
(* The initial state: a fresh deployment, nothing cached, nobody notified. *)
(***************************************************************************)
NoCounters ==
  [numAlreadyNotified |-> 0, numNoSubscriber |-> 0,
   devicesNotified |-> 0, devicesFailed |-> 0]

\* No helper is called on its own.
NoProbe == [op |-> "none"]

NoPrev == [active |-> FALSE, newGear |-> {}, written |-> {}]

FreshHist(prev) ==
  [wmAtStart |-> lastNotified, cacheAtStart |-> cache,
   events |-> {}, attempts |-> {}, guardNow |-> -1, fault |-> FALSE,
   transient |-> FALSE,
   disp |-> [u \in UserIDs |-> "none"], written |-> {},
   calls |-> [u \in UserIDs |-> 0], prev |-> prev]

JobInit ==
  /\ cache = <<>>
  /\ lastNotified = [u \in UserIDs |-> <<>>]
  /\ subscriptions = InitialSubscriptions
  /\ now = 0
  /\ pc = "idle"
  /\ status = 0
  /\ cachedGear = <<>>
  /\ fetchedRaw = {}
  /\ newGear = <<>>
  /\ lookups = <<>>
  /\ gearToUserMap = <<>>
  /\ allUsers = <<>>
  /\ idx = 0
  /\ latest = [u \in UserIDs |-> 0]
  /\ sends = {}
  /\ task = [u \in UserIDs |-> "none"]
  /\ wmWrites = {}
  /\ counters = NoCounters
  /\ hist = FreshHist(NoPrev)
  /\ pruned = {}

Init ==
  /\ JobInit
  /\ probe = NoProbe


(***************************************************************************)
(* The handler, one action per step between two awaits.                    *)
(***************************************************************************)
Quiet == sends = {} /\ wmWrites = {}

Log(e) == [hist EXCEPT !.events = @ \cup {e}]

\* return res.status(code).end(): the response is sent and the locals of the
\* handler that no pending callback captures are gone.
Respond(code) ==
  /\ status' = code
  /\ pc' = "returned"
  /\ cachedGear' = <<>>
  /\ fetchedRaw' = {}
  /\ newGear' = <<>>
  /\ lookups' = <<>>
  /\ gearToUserMap' = <<>>
  /\ allUsers' = <<>>
  /\ idx' = 0

\* catch (err) { return res.status(500).end(); } after a rejected await of a
\* storage or fetch call.
Abort ==
  /\ Respond(500)
  /\ hist' = [hist EXCEPT !.fault = TRUE]

\* A request arrives (lines 129-144).  One invocation runs at a time: the
\* scheduler triggers the next one when the previous one and the promises it
\* left behind are over.
Trigger(secretKey, providedKey) ==
  /\ pc \in {"idle", "returned"}
  /\ Quiet
  /\ hist' = FreshHist(IF pc = "idle" THEN hist.prev ELSE NoPrev)
  /\ latest' = [u \in UserIDs |-> 0]
  /\ task' = [u \in UserIDs |-> "none"]
  /\ counters' = NoCounters
  /\ IF Authorized(secretKey, providedKey)
       THEN /\ pc' = "readCache"
            /\ status' = 0
            /\ UNCHANGED <<cachedGear, fetchedRaw, newGear, lookups,
                           gearToUserMap, allUsers, idx>>
       ELSE Respond(401)
  /\ UNCHANGED <<store, now, probe, pruned, sends, wmWrites>>

\* let cachedRawGearData = await fetchCachedRawGearData(client), and the
\* too-early guard (lines 147-161).
ReadCacheOk ==
  /\ pc = "readCache"
  /\ LET gearList == IF cache = <<>> THEN <<>>
                     ELSE rawGearDataToGearList(cache[1])
     IN  IF TooEarly(gearList, now)
           THEN Respond(425)
           ELSE /\ cachedGear' = gearList
                /\ pc' = "fetch"
                /\ UNCHANGED <<status, fetchedRaw, newGear, lookups,
                               gearToUserMap, allUsers, idx>>
  /\ hist' = [hist EXCEPT !.guardNow = now]
  /\ UNCHANGED <<store, now, probe, pruned, latest, sends, task, wmWrites, counters>>

ReadCacheFails ==
  /\ pc = "readCache"
  /\ Abort
  /\ UNCHANGED <<store, now, probe, pruned, latest, sends, task, wmWrites, counters>>

\* The lookup promise of one new gear when getUsersToNotify creates it:
\* getUsersToBeNotified throws on a name outside the allow-list before it
\* queries, which rejects the promise it returns; the then() chained on it is
\* rejected too and the wrapping promise is never settled.
LookupAtStart(g) ==
  IF allowedCharsPattern(GearOf(g).name) THEN "pending" ELSE "rejected"

\* fetchAPIRawGearData resolves; the diff; getUsersToNotify starts one lookup
\* per new gear (lines 164-171, 47-66).
FetchOk(raw) ==
  /\ pc = "fetch"
  /\ fetchedRaw' = raw
  /\ newGear' = getNewGearItems(cachedGear, rawGearDataToGearList(raw))
  /\ lookups' = [g \in Range(newGear') |-> LookupAtStart(g)]
  /\ gearToUserMap' = <<>>
  /\ pc' = "lookups"
  /\ hist' = [hist EXCEPT !.events =
                @ \cup {"fetch"} \cup (IF newGear' = <<>> THEN {} ELSE {"lookup"})]
  /\ UNCHANGED <<store, now, probe, pruned, status, cachedGear, allUsers, idx, latest, sends,
                 task, wmWrites, counters>>

FetchFails ==
  /\ pc = "fetch"
  /\ Abort
  /\ UNCHANGED <<store, now, probe, pruned, latest, sends, task, wmWrites, counters>>

\* The query of one lookup returns: gearToUserMap.set(gear, value); resolve().
LookupDone(g) ==
  /\ pc = "lookups"
  /\ g \in DOMAIN lookups
  /\ lookups[g] = "pending"
  /\ lookups' = [lookups EXCEPT ![g] = "done"]
  /\ gearToUserMap' =
       Append(gearToUserMap, [gear |-> g, users |-> getUsersToBeNotified(g)])
  /\ UNCHANGED <<store, now, probe, pruned, pc, status, cachedGear, fetchedRaw, newGear,
                 allUsers, idx, latest, sends, task, wmWrites, counters, hist>>

\* The query of one lookup rejects: as for a thrown error, nothing settles
\* the wrapping promise.
LookupQueryFails(g) ==
  /\ pc = "lookups"
  /\ g \in DOMAIN lookups
  /\ lookups[g] = "pending"
  /\ lookups' = [lookups EXCEPT ![g] = "rejected"]
  /\ hist' = [hist EXCEPT !.fault = TRUE]
  /\ UNCHANGED <<store, now, probe, pruned, pc, status, cachedGear, fetchedRaw, newGear,
                 gearToUserMap, allUsers, idx, latest, sends, task, wmWrites,
                 counters>>

\* The for-loop moves to the next user, or ends (line 188).
NextUser(i, users) == IF i > Len(users) THEN "join" ELSE "getLast"

\* await Promise.all(promises) of getUsersToNotify resolves; aggregateUsers
\* (lines 67-68, 171-187).
LookupsJoined ==
  /\ pc = "lookups"
  /\ \A g \in DOMAIN lookups : lookups[g] = "done"
  /\ allUsers' = aggregateUsers(gearToUserMap)
  /\ idx' = 1
  /\ pc' = NextUser(1, allUsers')
  /\ UNCHANGED <<store, now, probe, pruned, status, cachedGear, fetchedRaw, newGear, lookups,
                 gearToUserMap, latest, sends, task, wmWrites, counters, hist>>


\* The user the for-loop is at.
CurrentUser == allUsers[idx]

\* latestExpiration <= (await getLastNotifiedExpiration(...)) (lines 189-209).
GetLastOk ==
  /\ pc = "getLast"
  /\ LET userID == CurrentUser
         latestExpiration == latestExpirationOf(getUserGear(gearToUserMap, userID))
     IN  IF AlreadyNotified(latestExpiration, getLastNotifiedExpiration(userID))
           THEN /\ counters' = [counters EXCEPT !.numAlreadyNotified = @ + 1]
                /\ idx' = idx + 1
                /\ pc' = NextUser(idx + 1, allUsers)
                /\ latest' = latest
                /\ hist' = [hist EXCEPT !.disp[userID] = "already"]
           ELSE /\ latest' = [latest EXCEPT ![userID] = latestExpiration]
                /\ pc' = "getSubs"
                /\ UNCHANGED <<counters, idx, hist>>
  /\ UNCHANGED <<store, now, probe, pruned, status, cachedGear, fetchedRaw, newGear, lookups,
                 gearToUserMap, allUsers, sends, task, wmWrites>>

GetLastFails ==
  /\ pc = "getLast"
  /\ Abort
  /\ UNCHANGED <<store, now, probe, pruned, latest, sends, task, wmWrites, counters>>

\* One trySendNotification per subscription and per notification of the user
\* (lines 220-234).
SendsOf(userID, userGear, userSubscriptions) ==
  { [user |-> userID, gear |-> userGear[i], endpoint |-> e] :
      i \in DOMAIN userGear, e \in userSubscriptions }

\* A user without devices counted among the failed devices.
NoSubscriberAsFailure(c) == [c EXCEPT !.devicesFailed = @ + 1]

\* numNoSubscriber++ (lines 213-217).
NoSubscriber(c) == [c EXCEPT !.numNoSubscriber = @ + 1]

\* let userSubscriptions = await getUserSubscriptions(...), the sends and the
\* promise pushed onto promises (lines 211-242).
GetSubsOk ==
  /\ pc = "getSubs"
  /\ LET userID == CurrentUser
         userSubscriptions == getUserSubscriptions(userID)
         userGear == getUserGear(gearToUserMap, userID)
         started == SendsOf(userID, userGear, userSubscriptions)
     IN  IF userSubscriptions = {}
           THEN /\ counters' = NoSubscriber(counters)
                /\ hist' = [hist EXCEPT !.disp[userID] = "nosub"]
                /\ UNCHANGED <<sends, task>>
           ELSE /\ counters' = [counters EXCEPT !.devicesNotified =
                                  @ + Cardinality(userSubscriptions)]
                /\ sends' = sends \cup started
                /\ task' = [task EXCEPT ![userID] = "pending"]
                /\ hist' = [hist EXCEPT !.disp[userID] = "sent",
                                        !.events = @ \cup {"send"},
                                        !.attempts = @ \cup started,
                                        !.calls[userID] =
                                          Len(userGear) *
                                            Cardinality(userSubscriptions)]
  /\ idx' = idx + 1
  /\ pc' = NextUser(idx + 1, allUsers)
  /\ UNCHANGED <<store, now, probe, pruned, status, cachedGear, fetchedRaw, newGear, lookups,
                 gearToUserMap, allUsers, latest, wmWrites>>

GetSubsFails ==
  /\ pc = "getSubs"
  /\ Abort
  /\ UNCHANGED <<store, now, probe, pruned, latest, sends, task, wmWrites, counters>>

(***************************************************************************)
(* The promises the handler started: they settle whether or not the        *)
(* handler has returned.                                                   *)
(***************************************************************************)
\* The join over a user's sends fulfilled by the first send that is.
FirstOf(s) == task[s.user] = "pending"

\* Promise.all(notificationPromises) of a user is fulfilled when the last of
\* the user's sends is fulfilled and none was rejected.
LastOf(s) ==
  /\ task[s.user] = "pending"
  /\ \A t \in sends \ {s} : t.user # s.user

\* A send is fulfilled (by a result or by undefined).  The then() of the
\* fulfilled Promise.all calls updateLastNotifiedExpiration and does not
\* return its promise (lines 236-241).
SendFulfilled(s) ==
  /\ sends' = sends \ {s}
  /\ IF LastOf(s)
       THEN /\ task' = [task EXCEPT ![s.user] = "fulfilled"]
            /\ wmWrites' = wmWrites \cup
                 {[user |-> s.user, value |-> latest[s.user]]}
            /\ hist' = Log("wmWrite")
       ELSE UNCHANGED <<task, wmWrites, hist>>

\* A send is rejected: Promise.all(notificationPromises) rejects, its then()
\* is skipped, the promise pushed onto promises rejects.
SendRejected(s) ==
  /\ sends' = sends \ {s}
  /\ task' = [task EXCEPT ![s.user] = "rejected"]
  /\ UNCHANGED wmWrites

\* webpush.sendNotification resolves (lines 982-988).
SendDelivered(s) ==
  /\ s \in sends
  /\ SendFulfilled(s)
  /\ UNCHANGED <<store, now, probe, pruned, pc, status, cachedGear, fetchedRaw, newGear,
                 lookups, gearToUserMap, allUsers, idx, latest, counters>>

\* A permanent failure that leaves the rows of the endpoint in place.
keepPushSubscription(endpoint) == subscriptions

\* DELETE FROM subscriptions WHERE endpoint = $1
deletePushSubscription(endpoint) ==
  {r \in subscriptions : r.endpoint # endpoint}

\* WebPushError 404, 410 or 403: the subscription is deleted, the send
\* returns undefined and the handler counts a failed device (lines 989-1000,
\* 226-230).
SendPermanentFailure(s) ==
  /\ s \in sends
  /\ subscriptions' = deletePushSubscription(s.endpoint)
  /\ counters' = [counters EXCEPT !.devicesFailed = @ + 1]
  /\ pruned' = pruned \cup {[user |-> s.user, endpoint |-> s.endpoint]}
  /\ SendFulfilled(s)
  /\ UNCHANGED <<cache, lastNotified, now, probe, pc, status, cachedGear, fetchedRaw,
                 newGear, lookups, gearToUserMap, allUsers, idx, latest>>

\* Any other error of the send is thrown again (lines 1001-1006).
SendTransientFailure(s) ==
  /\ s \in sends
  /\ SendRejected(s)
  /\ hist' = [hist EXCEPT !.transient = TRUE]
  /\ UNCHANGED <<store, now, probe, pruned, pc, status, cachedGear, fetchedRaw, newGear,
                 lookups, gearToUserMap, allUsers, idx, latest, counters>>

\* The DELETE of a permanent failure rejects: trySendNotification rejects.
SendDeleteFails(s) ==
  /\ s \in sends
  /\ SendRejected(s)
  /\ hist' = [hist EXCEPT !.fault = TRUE]
  /\ UNCHANGED <<store, now, probe, pruned, pc, status, cachedGear, fetchedRaw, newGear,
                 lookups, gearToUserMap, allUsers, idx, latest, counters>>

\* UPDATE users SET last_notified_expiration = $1 WHERE user_id = $2
updateLastNotifiedExpiration(userID, latestExpiration) ==
  [lastNotified EXCEPT ![userID] = <<latestExpiration>>]

WatermarkWriteDone(w) ==
  /\ w \in wmWrites
  /\ lastNotified' = updateLastNotifiedExpiration(w.user, w.value)
  /\ wmWrites' = wmWrites \ {w}
  /\ hist' = [hist EXCEPT !.written = @ \cup {w.user}]
  /\ UNCHANGED <<cache, subscriptions, now, probe, pruned, pc, status, cachedGear, fetchedRaw,
                 newGear, lookups, gearToUserMap, allUsers, idx, latest, sends,
                 task, counters>>

\* The UPDATE rejects; nothing awaits or catches the promise.
WatermarkWriteFails(w) ==
  /\ w \in wmWrites
  /\ wmWrites' = wmWrites \ {w}
  /\ hist' = [hist EXCEPT !.fault = TRUE]
  /\ UNCHANGED <<store, now, probe, pruned, pc, status, cachedGear, fetchedRaw, newGear,
                 lookups, gearToUserMap, allUsers, idx, latest, sends, task,
                 counters>>

(***************************************************************************)
(* The join, the commit of the snapshot and the response (lines 244-263).  *)
(***************************************************************************)
JoinResolves ==
  /\ pc = "join"
  /\ JoinResolved
  /\ pc' = "commit"
  /\ hist' = Log("snapWrite")
  /\ UNCHANGED <<store, now, probe, pruned, status, cachedGear, fetchedRaw, newGear, lookups,
                 gearToUserMap, allUsers, idx, latest, sends, task, wmWrites,
                 counters>>

JoinRejects ==
  /\ pc = "join"
  /\ JoinRejected
  /\ Respond(500)
  /\ UNCHANGED <<store, now, probe, pruned, latest, sends, task, wmWrites, counters, hist>>

\* A commit that adds the payload to the stored one.
mergeCachedRawGearData(raw) ==
  <<raw \cup (IF cache = <<>> THEN {} ELSE cache[1])>>

\* INSERT ... ON CONFLICT (key) DO UPDATE SET data = $2
updateCachedRawGearData(raw) == <<raw>>

CommitOk ==
  /\ pc = "commit"
  /\ cache' = updateCachedRawGearData(fetchedRaw)
  /\ Respond(200)
  /\ hist' = Log("snapStored")
  /\ UNCHANGED <<lastNotified, subscriptions, now, probe, pruned, latest, sends, task,
                 wmWrites, counters>>

CommitFails ==
  /\ pc = "commit"
  /\ Abort
  /\ UNCHANGED <<store, now, probe, pruned, latest, sends, task, wmWrites, counters>>

(***************************************************************************)
(* The environment: a device registers, time passes, the process is        *)
(* terminated.                                                             *)
(***************************************************************************)
\* addUserPushSubscription: the row of the user and endpoint is updated if
\* there is one and inserted if not.
addUserPushSubscription(userID, endpoint) ==
  subscriptions \cup {[user |-> userID, endpoint |-> endpoint]}

\* A device registers with the website for a user.  The devices of the
\* users are those of InitialSubscriptions.
Register(userID, endpoint) ==
  /\ [user |-> userID, endpoint |-> endpoint] \in InitialSubscriptions
  /\ subscriptions' = addUserPushSubscription(userID, endpoint)
  /\ subscriptions' # subscriptions
  /\ pruned' = pruned \ {[user |-> userID, endpoint |-> endpoint]}
  /\ UNCHANGED <<cache, lastNotified, now, probe, cycle, hist>>

Tick ==
  /\ now < MaxTime
  /\ now' = now + 1
  /\ UNCHANGED <<store, cycle, hist, pruned, probe>>

\* The diff of the invocation is known: the handler is past the fetch.
PastDiff == pc \in {"lookups", "getLast", "getSubs", "join", "commit"}

\* Process termination: the invocation and every promise in flight are gone,
\* the store stays.  What the interrupted invocation had done is remembered
\* for the properties about the invocation that follows it.
Crash ==
  /\ pc # "idle"
  /\ pc' = "idle"
  /\ status' = 0
  /\ cachedGear' = <<>>
  /\ fetchedRaw' = {}
  /\ newGear' = <<>>
  /\ lookups' = <<>>
  /\ gearToUserMap' = <<>>
  /\ allUsers' = <<>>
  /\ idx' = 0
  /\ latest' = [u \in UserIDs |-> 0]
  /\ sends' = {}
  /\ task' = [u \in UserIDs |-> "none"]
  /\ wmWrites' = {}
  /\ counters' = NoCounters
  /\ hist' = FreshHist(
       IF PastDiff
         THEN [active |-> TRUE, newGear |-> Range(newGear),
               written |-> hist.written]
         ELSE NoPrev)
  /\ UNCHANGED <<store, now, probe, pruned>>

Next ==
  \/ \E secretKey \in SecretKeys, providedKey \in ProvidedKeys :
       Trigger(secretKey, providedKey)
  \/ ReadCacheOk
  \/ ReadCacheFails
  \/ \E raw \in Inventories : FetchOk(raw)
  \/ FetchFails
  \/ \E g \in GearIDs : LookupDone(g)
  \/ \E g \in GearIDs : LookupQueryFails(g)
  \/ LookupsJoined
  \/ GetLastOk
  \/ GetLastFails
  \/ GetSubsOk
  \/ GetSubsFails
  \/ \E s \in sends : SendDelivered(s)
  \/ \E s \in sends : SendPermanentFailure(s)
  \/ \E s \in sends : SendTransientFailure(s)
  \/ \E s \in sends : SendDeleteFails(s)
  \/ \E w \in wmWrites : WatermarkWriteDone(w)
  \/ \E w \in wmWrites : WatermarkWriteFails(w)
  \/ JoinResolves
  \/ JoinRejects
  \/ CommitOk
  \/ CommitFails
  \/ Tick
  \/ Crash

Spec == Init /\ [][Next]_vars

\* The job when the database, the inventory source and the push services
\* answer every call and the process is not terminated.  The event loop
\* runs a continuation once the promise it awaits has settled, and every
\* call in flight is answered.
Progress ==
  \/ ReadCacheOk
  \/ \E raw \in Inventories : FetchOk(raw)
  \/ \E g \in GearIDs : LookupDone(g)
  \/ LookupsJoined
  \/ GetLastOk
  \/ GetSubsOk
  \/ \E s \in sends : SendDelivered(s)
  \/ \E s \in sends : SendPermanentFailure(s)
  \/ \E w \in wmWrites : WatermarkWriteDone(w)
  \/ JoinResolves
  \/ CommitOk

NextAnswered ==
  \/ \E secretKey \in SecretKeys, providedKey \in ProvidedKeys :
       Trigger(secretKey, providedKey)
  \/ Progress
  \/ Tick

SpecAnswered == Init /\ [][NextAnswered]_vars /\ WF_vars(Progress)

\* The job of a deployment whose environment defines no ACTION_SECRET:
\* getEnvWithDefault gives the same value at every invocation.
NextUnconfigured ==
  \/ \E providedKey \in ProvidedKeys : Trigger("", providedKey)
  \/ ReadCacheOk
  \/ ReadCacheFails
  \/ \E raw \in Inventories : FetchOk(raw)
  \/ FetchFails
  \/ \E g \in GearIDs : LookupDone(g)
  \/ \E g \in GearIDs : LookupQueryFails(g)
  \/ LookupsJoined
  \/ GetLastOk
  \/ GetLastFails
  \/ GetSubsOk
  \/ GetSubsFails
  \/ \E s \in sends : SendDelivered(s)
  \/ \E s \in sends : SendPermanentFailure(s)
  \/ \E s \in sends : SendTransientFailure(s)
  \/ \E s \in sends : SendDeleteFails(s)
  \/ \E w \in wmWrites : WatermarkWriteDone(w)
  \/ \E w \in wmWrites : WatermarkWriteFails(w)
  \/ JoinResolves
  \/ JoinRejects
  \/ CommitOk
  \/ CommitFails
  \/ Tick
  \/ Crash

SpecUnconfigured == Init /\ [][NextUnconfigured]_vars

\* The job next to the website, where devices register.
NextWithRegister ==
  \/ Next
  \/ \E userID \in UserIDs, endpoint \in Endpoints : Register(userID, endpoint)

SpecWithRegister == Init /\ [][NextWithRegister]_vars


(***************************************************************************)
(* getUsersToBeNotified called on its own: one filter a user entered, next *)
(* to a filter that admits every item of the highest rarity, and one gear  *)
(* item of the feed.                                                       *)
(***************************************************************************)
GEAR_RARITY_MIN == 0
GEAR_RARITY_MAX == 2

\* A Filter object as filterToTableData reads it.
Filter(gearName, minimumRarity, gearTypes, gearBrands, gearAbilities) ==
  [gearName |-> gearName, minimumRarity |-> minimumRarity,
   gearTypes |-> gearTypes, gearBrands |-> gearBrands,
   gearAbilities |-> gearAbilities]

\* A brand of the feed that is not in GEAR_BRANDS.
OtherBrand == <<"Z","+","F">>

ProbeNames == {<<"C","a","p">>, <<"H","a","t"," ","+">>, <<"M","r",".","X">>}

ProbeFilters ==
  { Filter(n, r, t, b, a) :
      n \in {<<>>, <<"C","a","p">>},
      r \in GEAR_RARITY_MIN..GEAR_RARITY_MAX,
      t \in {{}, {HeadGear}},
      b \in {{}, {Zink}, {KrakOn, Zink}},
      a \in {{}, {RunSpeedUp}} }

ProbeGears ==
  { Gear(0, n, r, t, b, a, 1) :
      n \in ProbeNames,
      r \in GEAR_RARITY_MIN..GEAR_RARITY_MAX,
      t \in GEAR_TYPES,
      b \in GEAR_BRANDS \cup {OtherBrand},
      a \in GEAR_ABILITIES }

\* The filters table: the filter of the call as row 1, and row 2.
ProbeTable(filter) ==
  { FilterRow(1, filter.gearName, filter.minimumRarity, filter.gearTypes,
              filter.gearBrands, filter.gearAbilities),
    FilterRow(2, <<>>, GEAR_RARITY_MAX, {}, {}, {}) }

\* users_to_filters: user 1 has both filters, user 2 the filter of the call.
ProbeLinks ==
  { [user |-> 1, filter |-> 1], [user |-> 1, filter |-> 2],
    [user |-> 2, filter |-> 1] }

InitMatcher ==
  /\ JobInit
  /\ \E filter \in ProbeFilters, gear \in ProbeGears :
       probe = [op |-> "getUsersToBeNotified", filter |-> filter,
                gear |-> gear, done |-> FALSE, error |-> "",
                queried |-> FALSE, users |-> <<>>]

\* The call returns its userMap or throws.
CallMatcher ==
  /\ probe.op = "getUsersToBeNotified"
  /\ ~probe.done
  /\ LET result == UsersToBeNotified(ProbeLinks, ProbeTable(probe.filter),
                                     probe.gear)
     IN  probe' = [probe EXCEPT !.done = TRUE,
                                !.error = result.error,
                                !.queried = result.queried,
                                !.users = result.users]
  /\ UNCHANGED job

NextMatcher == CallMatcher

SpecMatcher == InitMatcher /\ [][NextMatcher]_vars

(***************************************************************************)
(* generateNotificationOptions called on its own, with Date.now() and the  *)
(* expiration of the gear in milliseconds.                                 *)
(***************************************************************************)
MILLISECONDS_PER_SECOND == 1000

\* Math.floor(x / d) for an integer x and a positive d.
Floor(x, d) == x \div d

\* TTL: Math.floor((gear.expiration - Date.now()) / MILLISECONDS_PER_SECOND)
generateNotificationOptions(expiration, dateNow) ==
  [TTL |-> Floor(expiration - dateNow, MILLISECONDS_PER_SECOND)]

ProbeInstants == {0, 1, 999, 1000, 1001, 1999, 2000, 2001, 3500, 7200}

InitOptions ==
  /\ JobInit
  /\ \E expiration \in ProbeInstants, dateNow \in ProbeInstants :
       probe = [op |-> "generateNotificationOptions",
                expiration |-> expiration, dateNow |-> dateNow,
                done |-> FALSE, TTL |-> 0]

CallOptions ==
  /\ probe.op = "generateNotificationOptions"
  /\ ~probe.done
  /\ probe' = [probe EXCEPT
                 !.done = TRUE,
                 !.TTL = generateNotificationOptions(probe.expiration,
                                                     probe.dateNow).TTL]
  /\ UNCHANGED job

NextOptions == CallOptions

SpecOptions == InitOptions /\ [][NextOptions]_vars

(***************************************************************************)
(* addUserPushSubscription called on its own, one call after the other, on *)
(* a subscriptions table with its serial subscription ids.                 *)
(***************************************************************************)
\* The rows of the users table, and the user ids a caller may pass.
ProbeUsers == {1, 2}
ProbeUserIDs == {1, 2, 3}

\* The Subscription objects a device may send.
ProbeSubscriptions ==
  [endpoint : Endpoints, expirationTime : {"null", "t"}, keys : {"k", "l"}]

\* A test that finds every user id.
hasAnyUser(users, userID) == TRUE

\* SELECT FROM users WHERE user_id = $1; rowCount > 0
hasUser(users, userID) == userID \in users

\* addUserPushSubscription on the rows of the table and the next value of
\* the serial: NoSuchUserError, or the UPDATE of the row found for the user
\* and the endpoint, or the INSERT of a new row.
AddUserPushSubscription(rows, serial, userID, subscription) ==
  IF ~hasUser(ProbeUsers, userID)
    THEN [error |-> "NoSuchUserError", rows |-> rows, serial |-> serial]
  ELSE
    LET result == {r \in rows : /\ r.user = userID
                                /\ r.endpoint = subscription.endpoint}
    IN  IF result # {}
          THEN LET subscriptionID ==
                     (CHOOSE r \in result : \A q \in result : r.id <= q.id).id
               IN  [error |-> "",
                    rows |-> {IF r.id = subscriptionID
                                THEN [r EXCEPT
                                        !.endpoint = subscription.endpoint,
                                        !.expiration = subscription.expirationTime,
                                        !.keys = subscription.keys]
                                ELSE r : r \in rows},
                    serial |-> serial]
          ELSE [error |-> "",
                rows |-> rows \cup
                  {[id |-> serial, user |-> userID,
                    endpoint |-> subscription.endpoint,
                    expiration |-> subscription.expirationTime,
                    keys |-> subscription.keys]},
                serial |-> serial + 1]

InitUpsert ==
  /\ JobInit
  /\ probe = [op |-> "addUserPushSubscription", rows |-> {}, serial |-> 1,
              calls |-> 0, userID |-> 0, endpoint |-> 0, error |-> "",
              replaced |-> {}]

\* One call, started after the call before it has returned.
CallUpsert(userID, subscription) ==
  /\ probe.op = "addUserPushSubscription"
  /\ probe.calls < MaxCalls
  /\ LET result == AddUserPushSubscription(probe.rows, probe.serial, userID,
                                           subscription)
     IN  probe' = [probe EXCEPT !.rows = result.rows,
                                !.serial = result.serial,
                                !.error = result.error,
                                !.userID = userID,
                                !.endpoint = subscription.endpoint,
                                !.replaced = probe.rows \ result.rows,
                                !.calls = @ + 1]
  /\ UNCHANGED job

NextUpsert ==
  \E userID \in ProbeUserIDs, subscription \in ProbeSubscriptions :
    CallUpsert(userID, subscription)

SpecUpsert == InitUpsert /\ [][NextUpsert]_vars

(***************************************************************************)
(* tryAddFilter called on its own, one call after the other, on a filters  *)
(* table with its serial filter ids.  The column values of a filter are    *)
(* written into the text of the queries.                                   *)
(***************************************************************************)
\* The string a quoted literal denotes: '' inside the quotes is one
\* apostrophe; an apostrophe on its own ends the literal, and the query
\* whose text goes on with the rest of the name is rejected.
RECURSIVE stringLiteral(_)
stringLiteral(text) ==
  IF text = <<>> THEN [ok |-> TRUE, value |-> <<>>]
  ELSE IF Head(text) # "'"
    THEN LET rest == stringLiteral(Tail(text))
         IN  [ok |-> rest.ok, value |-> <<Head(text)>> \o rest.value]
  ELSE IF Len(text) >= 2 /\ text[2] = "'"
    THEN LET rest == stringLiteral(Tail(Tail(text)))
         IN  [ok |-> rest.ok, value |-> <<"'">> \o rest.value]
  ELSE [ok |-> FALSE, value |-> <<>>]

\* filterToTableData: the column values of a filter, as the database reads
\* them in the text of a query (the row without its id).
filterToTableData(filter) ==
  [FilterRow(0, stringLiteral(filter.gearName).value, filter.minimumRarity,
             filter.gearTypes, filter.gearBrands, filter.gearAbilities)
     EXCEPT !.id = 0]

\* The columns of a stored row, without its id.
TableData(row) == [row EXCEPT !.id = 0]

\* getMatchingFilterID: SELECT filter_id FROM filters WHERE every column
\* equals the value of the filter; the id of the first row, or -1.
getMatchingFilterID(rows, filter) ==
  IF ~stringLiteral(filter.gearName).ok
    THEN [error |-> "QueryError", id |-> -1]
  ELSE
    LET results == {r \in rows : TableData(r) = filterToTableData(filter)}
    IN  IF results # {}
          THEN [error |-> "",
                id |-> (CHOOSE r \in results :
                          \A q \in results : r.id <= q.id).id]
          ELSE [error |-> "", id |-> -1]

\* tryAddFilter on the rows of the table and the next value of the serial.
tryAddFilter(rows, serial, filter) ==
  LET found == getMatchingFilterID(rows, filter)
  IN  IF found.error # ""
        THEN [error |-> found.error, id |-> -1, rows |-> rows,
              serial |-> serial]
      ELSE IF found.id = -1
        THEN [error |-> "", id |-> serial,
              rows |-> rows \cup
                {[filterToTableData(filter) EXCEPT !.id = serial]},
              serial |-> serial + 1]
      ELSE [error |-> "", id |-> found.id, rows |-> rows, serial |-> serial]

\* The filters a user may save: no name, the name of a gear, and the name of
\* a gear with an apostrophe.
ApostropheName == <<"C","'","s">>
SavedFilters ==
  { Filter(n, r, {}, b, {}) :
      n \in {<<>>, <<"C","a","p">>, ApostropheName},
      r \in {GEAR_RARITY_MIN, GEAR_RARITY_MAX},
      b \in {{}, {Zink}} }

InitFilters ==
  /\ JobInit
  /\ probe = [op |-> "tryAddFilter", rows |-> {}, serial |-> 1, calls |-> 0,
              filter |-> Filter(<<>>, 0, {}, {}, {}), before |-> {},
              id |-> -1, error |-> ""]

\* One call, started after the call before it has returned.
CallTryAddFilter(filter) ==
  /\ probe.op = "tryAddFilter"
  /\ probe.calls < MaxCalls
  /\ LET result == tryAddFilter(probe.rows, probe.serial, filter)
     IN  probe' = [probe EXCEPT !.rows = result.rows,
                                !.serial = result.serial,
                                !.error = result.error,
                                !.id = result.id,
                                !.filter = filter,
                                !.before = probe.rows,
                                !.calls = @ + 1]
  /\ UNCHANGED job

NextFilters == \E filter \in SavedFilters : CallTryAddFilter(filter)

SpecFilters == InitFilters /\ [][NextFilters]_vars

(***************************************************************************)
(* addFilterToUser called on its own, one call after the other, on a       *)
(* users_to_filters table with its serial pair ids.                        *)
(***************************************************************************)
\* The ids of the rows of the filters table, and the ids a caller may pass.
ProbeFilterIDs == {1, 2}
FilterIDs == {1, 2, 3}

\* SELECT FROM filters WHERE filter_id = filterID; rowCount > 0
hasFilterID(filters, filterID) == filterID \in filters

\* A test that finds no row.
userHasNoFilter(rows, userID, filterID) == FALSE

\* SELECT FROM users_to_filters WHERE filter_id = .. AND user_id = ..
doesUserHaveFilter(rows, userID, filterID) ==
  \E r \in rows : r.filter = filterID /\ r.user = userID

\* addFilterToUser on the rows of the table and the next value of the
\* serial.
addFilterToUser(rows, serial, userID, filterID) ==
  IF ~hasUser(ProbeUsers, userID)
    THEN [error |-> "NoSuchUserError", rows |-> rows, serial |-> serial]
  ELSE IF ~hasFilterID(ProbeFilterIDs, filterID)
    THEN [error |-> "NoSuchFilterError", rows |-> rows, serial |-> serial]
  ELSE IF ~doesUserHaveFilter(rows, userID, filterID)
    THEN [error |-> "",
          rows |-> rows \cup
            {[id |-> serial, user |-> userID, filter |-> filterID]},
          serial |-> serial + 1]
  ELSE [error |-> "", rows |-> rows, serial |-> serial]

InitLinks ==
  /\ JobInit
  /\ probe = [op |-> "addFilterToUser", rows |-> {}, serial |-> 1,
              calls |-> 0, userID |-> 0, filterID |-> 0, before |-> {},
              error |-> ""]

\* One call, started after the call before it has returned.
CallAddFilterToUser(userID, filterID) ==
  /\ probe.op = "addFilterToUser"
  /\ probe.calls < MaxCalls
  /\ LET result == addFilterToUser(probe.rows, probe.serial, userID, filterID)
     IN  probe' = [probe EXCEPT !.rows = result.rows,
                                !.serial = result.serial,
                                !.error = result.error,
                                !.userID = userID,
                                !.filterID = filterID,
                                !.before = probe.rows,
                                !.calls = @ + 1]
  /\ UNCHANGED job

NextLinks ==
  \E userID \in ProbeUserIDs, filterID \in FilterIDs :
    CallAddFilterToUser(userID, filterID)

SpecLinks == InitLinks /\ [][NextLinks]_vars

(***************************************************************************)
(* Two calls of addUserPushSubscription whose awaits interleave: each      *)
(* query is one step, and the steps of the two calls come in any order.    *)
(***************************************************************************)
Callers == {1, 2}

InitRegistering ==
  /\ JobInit
  /\ \E args \in [Callers -> ProbeUserIDs \X ProbeSubscriptions] :
       probe = [op |-> "registering", rows |-> {}, serial |-> 1,
                call |-> [c \in Callers |->
                           [pc |-> "hasUser", userID |-> args[c][1],
                            subscription |-> args[c][2], result |-> {},
                            error |-> ""]]]

\* if (!(await hasUser(client, userID))) throw new NoSuchUserError(userID)
HasUserOf(c) ==
  /\ probe.op = "registering"
  /\ probe.call[c].pc = "hasUser"
  /\ probe' = [probe EXCEPT !.call[c] =
       IF hasUser(ProbeUsers, probe.call[c].userID)
         THEN [@ EXCEPT !.pc = "select"]
         ELSE [@ EXCEPT !.pc = "done", !.error = "NoSuchUserError"]]
  /\ UNCHANGED job

\* SELECT subscription_id FROM subscriptions WHERE user_id = .. AND
\* endpoint = $1 (lines 546-552).
SelectOf(c) ==
  /\ probe.op = "registering"
  /\ probe.call[c].pc = "select"
  /\ probe' = [probe EXCEPT !.call[c] =
       [@ EXCEPT !.pc = "write",
                 !.result = {r.id : r \in
                   {r \in probe.rows :
                      /\ r.user = probe.call[c].userID
                      /\ r.endpoint = probe.call[c].subscription.endpoint}}]]
  /\ UNCHANGED job

\* The UPDATE of the row found, or the INSERT of a new row (lines 555-597).
WriteOf(c) ==
  /\ probe.op = "registering"
  /\ probe.call[c].pc = "write"
  /\ LET call == probe.call[c]
         subscription == call.subscription
     IN  IF call.result # {}
           THEN LET subscriptionID ==
                      CHOOSE i \in call.result : \A j \in call.result : i <= j
                IN  probe' = [probe EXCEPT
                      !.call[c].pc = "done",
                      !.rows = {IF r.id = subscriptionID
                                  THEN [r EXCEPT
                                          !.endpoint = subscription.endpoint,
                                          !.expiration = subscription.expirationTime,
                                          !.keys = subscription.keys]
                                  ELSE r : r \in probe.rows}]
           ELSE probe' = [probe EXCEPT
                  !.call[c].pc = "done",
                  !.serial = @ + 1,
                  !.rows = @ \cup
                    {[id |-> probe.serial, user |-> call.userID,
                      endpoint |-> subscription.endpoint,
                      expiration |-> subscription.expirationTime,
                      keys |-> subscription.keys]}]
  /\ UNCHANGED job

NextRegistering ==
  \/ \E c \in Callers : HasUserOf(c)
  \/ \E c \in Callers : SelectOf(c)
  \/ \E c \in Callers : WriteOf(c)

SpecRegistering == InitRegistering /\ [][NextRegistering]_vars

(***************************************************************************)
(* Two requests served by one process: each invocation of the handler has  *)
(* its own locals, both use the one database.  The database, the inventory *)
(* source and the push services answer every call.                         *)
(***************************************************************************)
Invocations == {1, 2}

\* The locals of an invocation that has not started.
IdleFrame ==
  [pc |-> "idle", cachedGear |-> <<>>, fetchedRaw |-> {}, newGear |-> <<>>,
   gearToUserMap |-> <<>>, allUsers |-> <<>>, idx |-> 0,
   latest |-> [u \in UserIDs |-> 0], sends |-> {},
   task |-> [u \in UserIDs |-> "none"], wmWrites |-> {},
   wmRead |-> [u \in UserIDs |-> -2]]

\* return res.status(code).end(): the locals are gone, the promises the
\* invocation started stay.
ReturnedFrame(f) ==
  [IdleFrame EXCEPT !.pc = "returned", !.wmWrites = f.wmWrites]

Frame(i) == probe.inv[i]

\* The store of a deployment after its first invocation, which fetched the
\* first payload of the inventory source, notified the users of its items
\* and stored it.
FirstInventory == {1}
CacheAfterFirst == updateCachedRawGearData(FirstInventory)
LastNotifiedAfterFirst ==
  [u \in UserIDs |->
     LET userGear == SelectSeq(rawGearDataToGearList(FirstInventory),
                               LAMBDA g : u \in getUsersToBeNotified(g))
     IN  IF userGear # <<>> /\ \E r \in InitialSubscriptions : r.user = u
           THEN <<latestExpirationOf(userGear)>>
           ELSE <<>>]

InitOverlap ==
  /\ cache = CacheAfterFirst
  /\ lastNotified = LastNotifiedAfterFirst
  /\ subscriptions = InitialSubscriptions
  /\ now = 0
  /\ pc = "idle"
  /\ status = 0
  /\ cachedGear = <<>>
  /\ fetchedRaw = {}
  /\ newGear = <<>>
  /\ lookups = <<>>
  /\ gearToUserMap = <<>>
  /\ allUsers = <<>>
  /\ idx = 0
  /\ latest = [u \in UserIDs |-> 0]
  /\ sends = {}
  /\ task = [u \in UserIDs |-> "none"]
  /\ wmWrites = {}
  /\ counters = NoCounters
  /\ hist = FreshHist(NoPrev)
  /\ pruned = {}
  /\ probe = [op |-> "handler", runs |-> 0,
              inv |-> [i \in Invocations |-> IdleFrame]]

\* An invocation number is free when the invocation that had it has
\* returned and nothing it started is in flight.
Free(i) ==
  /\ Frame(i).pc \in {"idle", "returned"}
  /\ Frame(i).sends = {}
  /\ Frame(i).wmWrites = {}

\* A server that takes a request only when it serves no other.
CanStartAlone(i) ==
  \A j \in Invocations : probe.inv[j].pc \in {"idle", "returned"}

\* The handler starts for every request: nothing in it looks at the other
\* invocations (lines 123-130).  The request gets the first free number.
CanStart(i) == Free(i) /\ \A j \in Invocations : j < i => ~Free(j)

TriggerOf(i) ==
  /\ probe.op = "handler"
  /\ probe.runs < MaxRuns
  /\ CanStart(i)
  /\ probe' = [probe EXCEPT !.runs = @ + 1,
                            !.inv[i] = [IdleFrame EXCEPT !.pc = "readCache"]]
  /\ UNCHANGED job

\* The read of the cached inventory and the too-early guard (lines 147-161).
ReadCacheOf(i) ==
  /\ probe.op = "handler"
  /\ Frame(i).pc = "readCache"
  /\ LET gearList == IF cache = <<>> THEN <<>>
                     ELSE rawGearDataToGearList(cache[1])
     IN  probe' = [probe EXCEPT !.inv[i] =
           IF TooEarly(gearList, now)
             THEN ReturnedFrame(@)
             ELSE [@ EXCEPT !.pc = "fetch", !.cachedGear = gearList]]
  /\ UNCHANGED job

\* The fetch and the diff (lines 164-168).
FetchOf(i, raw) ==
  /\ probe.op = "handler"
  /\ Frame(i).pc = "fetch"
  /\ probe' = [probe EXCEPT !.inv[i] =
       [@ EXCEPT !.pc = "lookups",
                 !.fetchedRaw = raw,
                 !.newGear = getNewGearItems(Frame(i).cachedGear,
                                             rawGearDataToGearList(raw))]]
  /\ UNCHANGED job

\* One lookup of getUsersToNotify is answered (lines 54-58).
LookupOf(i, g) ==
  /\ probe.op = "handler"
  /\ Frame(i).pc = "lookups"
  /\ g \in Range(Frame(i).newGear)
  /\ \A k \in DOMAIN Frame(i).gearToUserMap :
       Frame(i).gearToUserMap[k].gear # g
  /\ probe' = [probe EXCEPT !.inv[i].gearToUserMap =
       Append(@, [gear |-> g, users |-> getUsersToBeNotified(g)])]
  /\ UNCHANGED job

\* The lookups are joined; aggregateUsers (lines 67-68, 171-187).
LookupsJoinedOf(i) ==
  /\ probe.op = "handler"
  /\ Frame(i).pc = "lookups"
  /\ Len(Frame(i).gearToUserMap) = Len(Frame(i).newGear)
  /\ LET users == aggregateUsers(Frame(i).gearToUserMap)
     IN  probe' = [probe EXCEPT !.inv[i] =
           [@ EXCEPT !.allUsers = users, !.idx = 1,
                     !.pc = NextUser(1, users)]]
  /\ UNCHANGED job

\* The read of the user's watermark and its comparison (lines 189-209).
GetLastOf(i) ==
  /\ probe.op = "handler"
  /\ Frame(i).pc = "getLast"
  /\ LET f == Frame(i)
         userID == f.allUsers[f.idx]
         latestExpiration ==
           latestExpirationOf(getUserGear(f.gearToUserMap, userID))
         stored == getLastNotifiedExpiration(userID)
     IN  probe' = [probe EXCEPT !.inv[i] =
           IF AlreadyNotified(latestExpiration, stored)
             THEN [@ EXCEPT !.idx = f.idx + 1,
                            !.pc = NextUser(f.idx + 1, f.allUsers),
                            !.wmRead[userID] = stored]
             ELSE [@ EXCEPT !.latest[userID] = latestExpiration,
                            !.pc = "getSubs",
                            !.wmRead[userID] = stored]]
  /\ UNCHANGED job

\* The read of the user's subscriptions and the sends (lines 211-242).
GetSubsOf(i) ==
  /\ probe.op = "handler"
  /\ Frame(i).pc = "getSubs"
  /\ LET f == Frame(i)
         userID == f.allUsers[f.idx]
         userSubscriptions == getUserSubscriptions(userID)
         userGear == getUserGear(f.gearToUserMap, userID)
         started == SendsOf(userID, userGear, userSubscriptions)
     IN  probe' = [probe EXCEPT !.inv[i] =
           IF userSubscriptions = {}
             THEN [@ EXCEPT !.idx = f.idx + 1,
                            !.pc = NextUser(f.idx + 1, f.allUsers)]
             ELSE [@ EXCEPT !.idx = f.idx + 1,
                            !.pc = NextUser(f.idx + 1, f.allUsers),
                            !.sends = @ \cup started,
                            !.task[userID] = "pending"]]
  /\ UNCHANGED job

\* A send of the invocation is delivered; the last one of a user issues the
\* write of the user's watermark (lines 982-988, 236-241).
SendDeliveredOf(i, s) ==
  /\ probe.op = "handler"
  /\ s \in Frame(i).sends
  /\ LET f == Frame(i)
         last == /\ f.task[s.user] = "pending"
                 /\ \A t \in f.sends \ {s} : t.user # s.user
     IN  probe' = [probe EXCEPT !.inv[i] =
           IF last
             THEN [@ EXCEPT !.sends = @ \ {s},
                            !.task[s.user] = "fulfilled",
                            !.wmWrites = @ \cup
                              {[user |-> s.user, value |-> f.latest[s.user]]}]
             ELSE [@ EXCEPT !.sends = @ \ {s}]]
  /\ UNCHANGED job

\* The UPDATE of a watermark write of the invocation is done.
WatermarkWriteDoneOf(i, w) ==
  /\ probe.op = "handler"
  /\ w \in Frame(i).wmWrites
  /\ lastNotified' = updateLastNotifiedExpiration(w.user, w.value)
  /\ probe' = [probe EXCEPT !.inv[i].wmWrites = @ \ {w}]
  /\ UNCHANGED <<cache, subscriptions, now, cycle, hist, pruned>>

\* await Promise.all(promises) resolves (lines 244-245).
JoinResolvesOf(i) ==
  /\ probe.op = "handler"
  /\ Frame(i).pc = "join"
  /\ \A u \in UserIDs : Frame(i).task[u] \in {"none", "fulfilled"}
  /\ probe' = [probe EXCEPT !.inv[i].pc = "commit"]
  /\ UNCHANGED job

\* The snapshot is stored and 200 is sent (lines 250-259).
CommitOf(i) ==
  /\ probe.op = "handler"
  /\ Frame(i).pc = "commit"
  /\ cache' = updateCachedRawGearData(Frame(i).fetchedRaw)
  /\ probe' = [probe EXCEPT !.inv[i] = ReturnedFrame(@)]
  /\ UNCHANGED <<lastNotified, subscriptions, now, cycle, hist, pruned>>

NextOverlap ==
  \/ \E i \in Invocations : TriggerOf(i)
  \/ \E i \in Invocations : ReadCacheOf(i)
  \/ \E i \in Invocations, raw \in Inventories : FetchOf(i, raw)
  \/ \E i \in Invocations, g \in GearIDs : LookupOf(i, g)
  \/ \E i \in Invocations : LookupsJoinedOf(i)
  \/ \E i \in Invocations : GetLastOf(i)
  \/ \E i \in Invocations : GetSubsOf(i)
  \/ \E i \in Invocations : \E s \in Frame(i).sends : SendDeliveredOf(i, s)
  \/ \E i \in Invocations : \E w \in Frame(i).wmWrites :
       WatermarkWriteDoneOf(i, w)
  \/ \E i \in Invocations : JoinResolvesOf(i)
  \/ \E i \in Invocations : CommitOf(i)
  \/ Tick

SpecOverlap == InitOverlap /\ [][NextOverlap]_vars

(***************************************************************************)
(* Properties.                                                             *)
(***************************************************************************)
\* The watermark a NULL-or-number column stands for.
WatermarkIn(column) == IF column # <<>> THEN column[1] ELSE -1

\* The watermark of a user when the invocation started.
WmAtStart(u) == WatermarkIn(hist.wmAtStart[u])

\* C1: watermark monotonicity.  The stored last-notified-expiration of a
\* user never decreases, and every watermark write an invocation has issued
\* carries a value strictly greater than the value stored for that user.
C1_WatermarkMonotonic ==
  /\ [](\A w \in wmWrites : w.value > getLastNotifiedExpiration(w.user))
  /\ [][\A u \in UserIDs :
          WatermarkIn(lastNotified'[u]) >= WatermarkIn(lastNotified[u])]_vars

\* C1, witness: an invocation has advanced a watermark that was already set.
C1_Witness ==
  \E u \in UserIDs :
    /\ hist.wmAtStart[u] # <<>>
    /\ u \in hist.written
    /\ WatermarkIn(lastNotified[u]) > WmAtStart(u)

\* C2, as claimed: no delivery attempt is made to a user for an item whose
\* expiration is less than or equal to the watermark stored for the user at
\* the start of the invocation.
C2_NoAttemptAtOrBelowWatermark ==
  \A s \in hist.attempts : Expiration(s.gear) > WmAtStart(s.user)

\* C2, amended: delivery attempts are made to a user only when the
\* expiration of the last item of the user's work list is strictly greater
\* than the watermark stored for the user at the start of the invocation;
\* then every matched item is sent, whatever its own expiration.
C2_AttemptOnlyWhenLatestAboveWatermark ==
  \A s \in hist.attempts :
    /\ hist.disp[s.user] = "sent"
    /\ latest[s.user] > WmAtStart(s.user)

\* C2, witness: an item whose expiration is not above the user's watermark
\* has been sent, next to a later one.
C2_Witness ==
  \E s \in hist.attempts :
    /\ Expiration(s.gear) <= WmAtStart(s.user)
    /\ WmAtStart(s.user) >= 0
    /\ latest[s.user] > WmAtStart(s.user)

\* C3, as claimed: the new snapshot is never stored while a watermark write
\* of the same invocation is still in flight.
C3_SnapshotAfterWatermarkWrites ==
  "snapStored" \in hist.events => wmWrites = {}


\* The invocation follows one that was terminated before the snapshot
\* commit, and has computed the same set of new items.
ResumedSameBatch ==
  /\ hist.prev.active
  /\ PastDiff
  /\ Range(newGear) = hist.prev.newGear

\* The greatest expiration among the gears of a work list.
MaxExpiration(userGear) ==
  CHOOSE m \in {Expiration(g) : g \in Range(userGear)} :
    \A g \in Range(userGear) : Expiration(g) <= m

\* C4, as claimed: when an invocation is terminated after the watermark of
\* user U was persisted and before the snapshot commit, the next invocation,
\* having computed the same new items, makes no delivery attempt to U.
C4_NoDuplicateOnResume ==
  ResumedSameBatch =>
    \A s \in hist.attempts : s.user \notin hist.prev.written

\* C5, as claimed: after an invocation terminated before the snapshot commit
\* the next one is not too early and, having computed the same new items,
\* does not skip as already notified a matched user with a subscription
\* whose watermark was not advanced and is below the user's batch watermark.
C5_NoLossOnResume ==
  /\ hist.prev.active => status # 425
  /\ ResumedSameBatch =>
       \A u \in Range(allUsers) :
         ( /\ u \notin hist.prev.written
           /\ getUserSubscriptions(u) # {}
           /\ WmAtStart(u) < MaxExpiration(getUserGear(gearToUserMap, u)) )
         => hist.disp[u] # "already"

\* C6, as claimed: the internal-error status is returned only after a fetch
\* error or a storage error; no outcome of a send produces it.
C6_SendFailureNeverAborts ==
  status = 500 => hist.fault

\* C7, as claimed: an invocation that a fetch error or a storage error ends
\* with the internal-error status leaves every watermark and the snapshot as
\* they were when it started.
C7_NoPartialCommit ==
  (status = 500 /\ ~hist.transient) =>
    /\ lastNotified = hist.wmAtStart
    /\ cache = hist.cacheAtStart

\* C7, amended: an invocation that ends with the internal-error status
\* leaves the snapshot as it was when it started, and has changed the
\* watermark only of users it dispatched whose sends have all completed
\* without rejection.
C7_AbortKeepsSnapshot ==
  status = 500 =>
    /\ cache = hist.cacheAtStart
    /\ \A u \in UserIDs :
         lastNotified[u] # hist.wmAtStart[u] =>
           /\ hist.disp[u] = "sent"
           /\ task[u] = "fulfilled"
           /\ \A s \in sends : s.user # u

\* C7, witness: a storage or fetch error has ended the invocation with the
\* internal-error status after a watermark was advanced.
C7_Witness ==
  /\ status = 500
  /\ hist.fault
  /\ ~hist.transient
  /\ lastNotified # hist.wmAtStart

\* Every lookup of the invocation has settled.
LookupsSettled ==
  /\ pc = "lookups"
  /\ \A g \in DOMAIN lookups : lookups[g] # "pending"

\* C8, as claimed: when the lookup of one new item has failed and the
\* lookups of the other new items have returned their users, the handler
\* goes on with the users of the others.
C8_LookupFailureIsolated ==
  (LookupsSettled /\ \E g \in DOMAIN lookups : lookups[g] = "done")
    => ENABLED LookupsJoined

\* A step of the invocation or of a promise it started.
CycleStep ==
  \/ ReadCacheOk \/ ReadCacheFails
  \/ \E raw \in Inventories : FetchOk(raw)
  \/ FetchFails
  \/ \E g \in GearIDs : LookupDone(g) \/ LookupQueryFails(g)
  \/ LookupsJoined
  \/ GetLastOk \/ GetLastFails \/ GetSubsOk \/ GetSubsFails
  \/ \E s \in sends : SendDelivered(s) \/ SendPermanentFailure(s)
                        \/ SendTransientFailure(s) \/ SendDeleteFails(s)
  \/ JoinResolves \/ JoinRejects \/ CommitOk \/ CommitFails

\* C9, as claimed: an invocation that has not returned and is not terminated
\* can always take a step towards its response, and a response carries one
\* of the four statuses.
C9_CycleTerminates ==
  /\ pc \notin {"idle", "returned"} => ENABLED CycleStep
  /\ pc = "returned" => status \in {200, 425, 401, 500}

\* The earliest expiration of a stored payload.
EarliestExpiration(raw) ==
  CHOOSE m \in {Expiration(g) : g \in raw} : \A g \in raw : m <= Expiration(g)

\* The stored snapshot is non-empty and its earliest item expires after t.
SnapshotCurrent(column, t) ==
  /\ column # <<>>
  /\ column[1] # {}
  /\ t < EarliestExpiration(column[1])

\* C10: too-early short-circuit.  Once the guard has been evaluated, the
\* status is too-early exactly when the stored snapshot is non-empty and its
\* earliest expiration is after now; then nothing was fetched, looked up,
\* sent or written; otherwise the handler has gone on to the fetch.
C10_TooEarly ==
  hist.guardNow >= 0 =>
    /\ status = 425 <=> SnapshotCurrent(hist.cacheAtStart, hist.guardNow)
    /\ status = 425 =>
         /\ hist.events = {}
         /\ hist.attempts = {}
         /\ cache = hist.cacheAtStart
         /\ lastNotified = hist.wmAtStart
         /\ pc = "returned"
    /\ status # 425 => pc # "readCache"

\* C10, witness: the invocation has returned too-early in front of a stored
\* snapshot that holds an item.
C10_Witness ==
  /\ status = 425
  /\ cache # <<>>
  /\ hist.guardNow >= 0

\* C11: unauthorized trigger.  A request is answered with the unauthorized
\* status exactly when a secret is configured and the authorization header
\* is missing or differs from it; the handler then returns at once, having
\* read, fetched, sent and written nothing, with nothing left in flight, and
\* the persisted state stays as it is until the next request.
C11_Unauthorized ==
  [][ /\ \A secretKey \in SecretKeys, providedKey \in ProvidedKeys :
          Trigger(secretKey, providedKey) =>
            /\ status' = 401 <=> (secretKey # "" /\ secretKey # providedKey)
            /\ status' = 401 =>
                  /\ pc' = "returned"
                  /\ hist'.events = {}
                  /\ hist'.attempts = {}
                  /\ hist'.guardNow = -1
                  /\ sends' = {}
                  /\ wmWrites' = {}
                  /\ store' = store
      /\ status = 401 => store' = store ]_vars

\* C11, witness: a request was refused as unauthorized while a snapshot and
\* a watermark are stored.
C11_Witness ==
  /\ status = 401
  /\ cache # <<>>
  /\ \E u \in UserIDs : lastNotified[u] # <<>>

\* The row of the subscriptions table a send was addressed to.
RowOf(s) == [user |-> s.user, endpoint |-> s.endpoint]

\* C12: permanent-failure pruning.  The step in which a send ends with a
\* permanent failure removes the subscription it was addressed to; from then
\* on, until the device registers again for the user, the row is not stored,
\* getUserSubscriptions of the user does not return its endpoint, and no
\* dispatch starts a send to it.
C12_PermanentFailurePrunes ==
  /\ [](\A r \in pruned :
          /\ r \notin subscriptions
          /\ r.endpoint \notin getUserSubscriptions(r.user))
  /\ [][ /\ \A s \in sends :
               SendPermanentFailure(s) => RowOf(s) \notin subscriptions'
         /\ GetSubsOk => \A s \in sends' \ sends : RowOf(s) \notin pruned
       ]_vars

\* C12, witness: a user who lost a subscription to a permanent failure in an
\* earlier invocation has been dispatched again, on the subscriptions left,
\* with no send to the removed one.
C12_Witness ==
  \E r \in pruned :
    /\ hist.disp[r.user] = "sent"
    /\ \A s \in hist.attempts : RowOf(s) # r

\* C13, as claimed: a send that ends in a transient failure is not started
\* again in its invocation and is counted in the failure counter, and the
\* watermark of its user stays where it was, so that the next invocation
\* dispatches the user again.
C13_TransientCountedNotRetried ==
  /\ [](hist.transient => counters.devicesFailed >= 1)
  /\ [](\A u \in UserIDs :
          task[u] = "rejected" => lastNotified[u] = hist.wmAtStart[u])
  /\ [][\A s \in sends :
          SendTransientFailure(s) => sends' = sends \ {s}]_vars

\* The handler finds that the user the loop is at has no subscription.
NoSubscriberStep ==
  /\ pc = "getSubs"
  /\ getUserSubscriptions(CurrentUser) = {}
  /\ GetSubsOk

\* C14: zero-subscription skip.  The step that finds a matched user without
\* subscriptions starts no send, adds one to the no-subscriber counter and
\* nothing to the other counters, writes nothing and moves the loop to the
\* next user or to the join; such a user has no promise the join waits for
\* and keeps the watermark, and a join with no dispatched user resolves.
C14_ZeroSubscriptionSkip ==
  /\ [][NoSubscriberStep =>
          /\ sends' = sends
          /\ hist'.attempts = hist.attempts
          /\ counters' = [counters EXCEPT
                            !.numNoSubscriber = counters.numNoSubscriber + 1]
          /\ task' = task
          /\ wmWrites' = wmWrites
          /\ store' = store
          /\ status' = status
          /\ idx' = idx + 1
          /\ pc' = (IF idx + 1 > Len(allUsers) THEN "join" ELSE "getLast")]_vars
  /\ [](\A u \in UserIDs :
          hist.disp[u] = "nosub" =>
            /\ task[u] = "none"
            /\ \A s \in hist.attempts : s.user # u
            /\ lastNotified[u] = hist.wmAtStart[u])
  /\ []((pc = "join" /\ \A u \in UserIDs : hist.disp[u] # "sent")
          => ENABLED JoinResolves)

\* C14, witness: an invocation that skipped a user without subscriptions
\* and dispatched another user has committed the snapshot and returned ok
\* with one user in the no-subscriber counter and no failed device.
C14_Witness ==
  /\ status = 200
  /\ "snapStored" \in hist.events
  /\ \E u, v \in UserIDs : hist.disp[u] = "nosub" /\ hist.disp[v] = "sent"
  /\ counters.numNoSubscriber = 1
  /\ counters.devicesFailed = 0

\* The new items of the invocation that match a filter of the user.
MatchedItems(u) ==
  {g \in Range(newGear) : u \in getUsersToBeNotified(g)}

\* The sends the invocation has started for the user.
AttemptsOf(u) == {s \in hist.attempts : s.user = u}

\* C15: one attempt per pair.  The dispatch of a user calls
\* trySendNotification as many times as the user has matched items times the
\* subscriptions read for the user, once for each pair of a matched item and
\* a subscription, for no other pair and for no pair twice.
C15_OneAttemptPerPair ==
  /\ [](\A u \in UserIDs :
          (PastDiff /\ hist.disp[u] = "sent") =>
            LET endpoints == {s.endpoint : s \in AttemptsOf(u)}
            IN  /\ {<<s.gear, s.endpoint>> : s \in AttemptsOf(u)}
                      = MatchedItems(u) \X endpoints
                /\ hist.calls[u]
                      = Cardinality(MatchedItems(u)) * Cardinality(endpoints)
                /\ hist.calls[u] = Cardinality(AttemptsOf(u)))
  /\ [][(GetSubsOk /\ getUserSubscriptions(CurrentUser) # {}) =>
          /\ {s.endpoint : s \in sends' \ sends}
                = getUserSubscriptions(CurrentUser)
          /\ \A s \in sends' \ sends : s \notin hist.attempts]_vars

\* C15, witness: a user with two subscriptions and a user with two matched
\* items have been dispatched in one invocation.
C15_Witness ==
  /\ PastDiff
  /\ \E u \in UserIDs :
       /\ hist.disp[u] = "sent"
       /\ Cardinality(MatchedItems(u)) = 2
  /\ \E u \in UserIDs :
       /\ hist.disp[u] = "sent"
       /\ Cardinality({s.endpoint : s \in AttemptsOf(u)}) = 2

\* C16, as claimed: the watermark value an invocation has computed for a
\* user is the greatest expiration among the user's matched new items,
\* whatever the order in which the lookups of the items returned.
C16_BatchWatermarkIsMaximum ==
  \A u \in UserIDs :
    (PastDiff /\ latest[u] > 0) =>
      latest[u] = MaxExpiration(getUserGear(gearToUserMap, u))

\* The loop of the invocation has evaluated the user, and the watermark it
\* computed for the user equals the one stored when the invocation started.
WatermarkAlreadyEqual(u) ==
  /\ PastDiff
  /\ hist.disp[u] # "none"
  /\ latestExpirationOf(getUserGear(gearToUserMap, u)) = WmAtStart(u)

\* C17, as claimed: a user whose stored watermark equals the watermark
\* computed for the batch is still dispatched to, and the stored watermark
\* stays as it is.
C17_EqualWatermarkStillDispatched ==
  \A u \in UserIDs :
    (WatermarkAlreadyEqual(u) /\ getUserSubscriptions(u) # {}) =>
      /\ hist.disp[u] = "sent"
      /\ lastNotified[u] = hist.wmAtStart[u]

\* C17, amended: a user whose stored watermark equals the watermark computed
\* for the batch is skipped as already notified: the already-notified
\* counter is raised, no send to the user is started, no promise of the user
\* is joined, and the stored watermark stays as it is.
C17_EqualWatermarkSkipped ==
  \A u \in UserIDs :
    WatermarkAlreadyEqual(u) =>
      /\ hist.disp[u] = "already"
      /\ counters.numAlreadyNotified >= 1
      /\ AttemptsOf(u) = {}
      /\ task[u] = "none"
      /\ lastNotified[u] = hist.wmAtStart[u]

\* C17, witness: the loop has passed a user with a subscription whose stored
\* watermark equals the watermark computed for the batch.
C17_Witness ==
  \E u \in UserIDs :
    /\ WatermarkAlreadyEqual(u)
    /\ WmAtStart(u) >= 1
    /\ getUserSubscriptions(u) # {}

\* The invocation has fetched the inventory and found no new item.
EmptyDiff == "fetch" \in hist.events /\ "lookup" \notin hist.events

\* C18: empty diff still commits.  An invocation that passed the guard and
\* found no new item in the fetched inventory visits no user, starts no send
\* and no watermark write, goes through the two joins to the commit, stores
\* the fetched payload as the snapshot and returns ok; only a failure of the
\* snapshot write ends it otherwise.
C18_EmptyDiffCommits ==
  /\ [](EmptyDiff =>
          /\ hist.attempts = {}
          /\ sends = {}
          /\ wmWrites = {}
          /\ "wmWrite" \notin hist.events
          /\ lastNotified = hist.wmAtStart
          /\ pc \in {"lookups", "join", "commit", "returned"}
          /\ pc = "lookups" => ENABLED LookupsJoined
          /\ pc = "join" => ENABLED JoinResolves
          /\ pc = "commit" => ENABLED CommitOk
          /\ pc = "returned" => status \in {200, 500}
          /\ status = 500 => (hist.fault /\ "snapWrite" \in hist.events)
          /\ status = 200 => "snapStored" \in hist.events)
  /\ [][(EmptyDiff /\ CommitOk) =>
          /\ cache' = <<fetchedRaw>>
          /\ status' = 200]_vars

\* C18, witness: an invocation that found no new item has replaced a stored
\* snapshot by a different one and returned ok.
C18_Witness ==
  /\ EmptyDiff
  /\ status = 200
  /\ hist.cacheAtStart # <<>>
  /\ cache # hist.cacheAtStart

\* Scenario A: the stored snapshot was empty, the fetched inventory is the
\* one item of rarity 1 (gear 1, expiration 1), and the owner of the filter
\* that wildcards type, brand and ability with rarity 0 and no name (user 1)
\* has subscriptions and no watermark.
ScenarioA ==
  /\ hist.cacheAtStart = <<>>
  /\ fetchedRaw = {1}
  /\ hist.wmAtStart[1] = <<>>
  /\ getUserSubscriptions(1) # {}

\* C19: scenario A end to end.  When every call is answered, the invocation
\* of scenario A matches user 1 and nobody else, starts a send of the item
\* to each subscription of user 1, and leads to a state where the watermark
\* of user 1 is the expiration of the item and the fetched payload is the
\* stored snapshot.
C19_ScenarioA ==
  /\ []((ScenarioA /\ pc \in {"getLast", "getSubs", "join", "commit"})
          => allUsers = <<1>>)
  /\ [][(ScenarioA /\ GetSubsOk) =>
          {RowOf(s) : s \in sends'}
            = {r \in subscriptions : r.user = 1}]_vars
  /\ (ScenarioA /\ pc = "lookups")
       ~> (lastNotified[1] = <<Expiration(1)>> /\ cache = <<{1}>>)

\* C19, witness: the invocation of scenario A has sent to the subscriptions
\* of user 1, written the watermark and committed the snapshot.
C19_Witness ==
  /\ hist.cacheAtStart = <<>>
  /\ hist.wmAtStart[1] = <<>>
  /\ AttemptsOf(1) # {}
  /\ AttemptsOf(2) = {}
  /\ lastNotified[1] = <<Expiration(1)>>
  /\ cache = <<{1}>>
  /\ status = 200

\* C20, as claimed: a watermark write stores its value whatever was stored,
\* so that writing it again changes nothing, and an invocation that runs
\* again on the same stored snapshot and the same new items leaves the
\* watermark of every user the interrupted invocation had written at the
\* value it had after that one write.
C20_IdempotentCommit ==
  /\ [][\A w \in wmWrites :
          WatermarkWriteDone(w) =>
            lastNotified' = [lastNotified EXCEPT ![w.user] = <<w.value>>]]_vars
  /\ [](ResumedSameBatch =>
          \A u \in hist.prev.written : lastNotified[u] = hist.wmAtStart[u])

\* A filter admits an item: the conjunction of the matching contract.
Admits(filter, gear) ==
  /\ filter.minimumRarity <= gear.rarity
  /\ (filter.gearName = <<>> \/ filter.gearName = gear.name)
  /\ (filter.gearTypes = {} \/ gear.type \in filter.gearTypes)
  /\ (filter.gearBrands = {} \/ gear.brand \in filter.gearBrands)
  /\ (filter.gearAbilities = {} \/ gear.ability \in filter.gearAbilities)

\* The filter objects stored as the rows of ProbeTable.
StoredFilter(id, filter) ==
  IF id = 1 THEN filter ELSE Filter(<<>>, GEAR_RARITY_MAX, {}, {}, {})

\* The users linked to at least one filter that admits the item.
OwnersOfAdmitting(filter, gear) ==
  {l.user : l \in {l \in ProbeLinks :
                     Admits(StoredFilter(l.filter, filter), gear)}}

\* getUsersToBeNotified was called for an item whose name passes the
\* allow-list, and is over.
MatcherCalled ==
  /\ probe.op = "getUsersToBeNotified"
  /\ probe.done
  /\ allowedCharsPattern(probe.gear.name)

\* C21, as claimed: for every stored filter and every item the matcher
\* returns exactly the users linked to at least one filter that admits the
\* item by the conjunction of rarity, name, type, brand and ability, each
\* user once.
C21_MatchingIsConjunction ==
  MatcherCalled =>
    /\ probe.error = ""
    /\ Range(probe.users) = OwnersOfAdmitting(probe.filter, probe.gear)
    /\ Len(probe.users) = Cardinality(Range(probe.users))

\* The filter of the call wildcards type, brand and ability and has no name.
AllWildcard(filter) ==
  /\ filter.gearName = <<>>
  /\ filter.gearTypes = {}
  /\ filter.gearBrands = {}
  /\ filter.gearAbilities = {}

\* C22, as claimed: when the filter of the call is all-wildcard with no
\* name, the matcher returns its owner (user 2, who has no other filter) for
\* every item of at least the filter's rarity and for no item below it.
C22_AllWildcardFilter ==
  (MatcherCalled /\ AllWildcard(probe.filter)) =>
    (2 \in Range(probe.users)
       <=> probe.gear.rarity >= probe.filter.minimumRarity)

C24_DeliveryLifetime ==
  (probe.op = "generateNotificationOptions" /\ probe.done) =>
    LET remaining == probe.expiration - probe.dateNow
    IN  /\ remaining > 0 =>
              /\ probe.TTL * MILLISECONDS_PER_SECOND <= remaining
              /\ remaining < (probe.TTL + 1) * MILLISECONDS_PER_SECOND
        /\ remaining <= 0 => probe.TTL = 0
        /\ probe.TTL >= 0

\* The items of the snapshot that was stored when the invocation started.
StoredAtStart ==
  IF hist.cacheAtStart = <<>> THEN {} ELSE hist.cacheAtStart[1]

\* C25: diff contract.  Once the handler has computed the diff, the new
\* items are exactly the fetched items that are not in the stored snapshot,
\* each once: no item that disappeared is among them, with no stored
\* snapshot every fetched item is new, and a fetched inventory equal to the
\* stored snapshot has no new item.
C25_DiffContract ==
  PastDiff =>
    /\ Range(newGear) = fetchedRaw \ StoredAtStart
    /\ Len(newGear) = Cardinality(Range(newGear))
    /\ Range(newGear) \cap (StoredAtStart \ fetchedRaw) = {}
    /\ hist.cacheAtStart = <<>> => Range(newGear) = fetchedRaw
    /\ hist.cacheAtStart = <<fetchedRaw>> => newGear = <<>>

\* C25, witness: the handler has diffed an inventory against a stored
\* snapshot with one item that disappeared, one that stayed and one new.
C25_Witness ==
  /\ PastDiff
  /\ StoredAtStart \ fetchedRaw # {}
  /\ StoredAtStart \cap fetchedRaw # {}
  /\ newGear # <<>>

\* The rows the table holds for a user and an endpoint.
RowsFor(rows, userID, endpoint) ==
  {r \in rows : r.user = userID /\ r.endpoint = endpoint}

\* C26: idempotent subscription upsert.  After calls made one after the
\* other the table holds at most one row for a user and an endpoint; a call
\* for a pair that has a row leaves the number of rows, the id of the row
\* and every other row as they are and stores the keys and the expiration of
\* the call in the row; a call for a pair without a row adds one row; a call
\* for a user id that is not in the users table throws NoSuchUserError and
\* leaves the table as it is.
C26_IdempotentUpsert ==
  /\ [](probe.op = "addUserPushSubscription" =>
          \A r, q \in probe.rows :
            (r.user = q.user /\ r.endpoint = q.endpoint) => r = q)
  /\ [][\A userID \in ProbeUserIDs, subscription \in ProbeSubscriptions :
          CallUpsert(userID, subscription) =>
            LET before == RowsFor(probe.rows, userID, subscription.endpoint)
                after == RowsFor(probe'.rows, userID, subscription.endpoint)
            IN  IF userID \notin ProbeUsers
                  THEN /\ probe'.error = "NoSuchUserError"
                       /\ probe'.rows = probe.rows
                  ELSE /\ probe'.error = ""
                       /\ Cardinality(after) = 1
                       /\ \A r \in after :
                            /\ r.keys = subscription.keys
                            /\ r.expiration = subscription.expirationTime
                       /\ probe'.rows \ after = probe.rows \ before
                       /\ before # {} =>
                            /\ Cardinality(probe'.rows) = Cardinality(probe.rows)
                            /\ {r.id : r \in after} = {r.id : r \in before}
      ]_vars

\* C26, witness: a pair was registered again with other keys and another
\* expiration, next to the row of another pair.
C26_Witness ==
  /\ probe.op = "addUserPushSubscription"
  /\ probe.error = ""
  /\ Cardinality(probe.rows) = 2
  /\ \E old \in probe.replaced :
       \E r \in RowsFor(probe.rows, probe.userID, probe.endpoint) :
         /\ r.id = old.id
         /\ r.keys # old.keys
         /\ r.expiration # old.expiration

\* C27: unconfigured secret.  In a deployment without ACTION_SECRET an
\* invocation goes on to the read of the cached inventory whatever the
\* authorization header of the request is, a missing header included, and
\* no invocation is answered with 401.
C27_UnconfiguredSecret ==
  /\ [](status # 401)
  /\ [][\A providedKey \in ProvidedKeys :
          Trigger("", providedKey) => (pc' = "readCache" /\ status' = 0)]_vars

\* C27, witness: without a secret, an invocation has gone past the check
\* and has answered 200 after sending a notification.
C27_Witness ==
  /\ status = 200
  /\ counters.devicesNotified > 0
  /\ cache # <<>>

\* The sends of the invocation for a user that have not completed.
InFlight(u) == {s \in sends : s.user = u}

\* C28: watermark held back per user.  The write of a user's watermark is
\* issued by the step in which the last of the sends started for the user
\* in the invocation (every matched item to every subscription) completes,
\* and by no other step; while a send of the user is in flight no write of
\* the user's watermark is in flight and none has been done in the
\* invocation.
C28_WatermarkHeldBack ==
  /\ [](\A u \in UserIDs :
          InFlight(u) # {} =>
            /\ \A w \in wmWrites : w.user # u
            /\ u \notin hist.written)
  /\ [][\A w \in wmWrites' \ wmWrites :
          /\ InFlight(w.user) # {}
          /\ InFlight(w.user) \subseteq hist.attempts
          /\ sends' \cap {s \in hist.attempts : s.user = w.user} = {}
          /\ hist.disp[w.user] = "sent"]_vars

\* C28, witness: the write of a user's watermark is in flight after the two
\* sends started for the user have completed, while a send of another user
\* is in flight.
C28_Witness ==
  \E w \in wmWrites :
    /\ hist.calls[w.user] >= 2
    /\ InFlight(w.user) = {}
    /\ \E s \in sends : s.user # w.user

\* The users the invocation has started sends for.
Dispatched == {s.user : s \in hist.attempts}

\* C29: join before commit.  The write of the snapshot is issued, and the
\* snapshot is stored, only when every send the invocation started has
\* completed: the handler is at the commit, or has stored the snapshot,
\* with no send in flight and with the join of every dispatched user
\* fulfilled.
C29_JoinBeforeCommit ==
  /\ []((pc = "commit" \/ "snapStored" \in hist.events) =>
          /\ sends = {}
          /\ \A u \in Dispatched : task[u] = "fulfilled")
  /\ [][(JoinResolves \/ CommitOk) => (sends = {} /\ sends' = {})]_vars

\* C29, witness: the snapshot is stored after the sends to two dispatched
\* users have completed.
C29_Witness ==
  /\ "snapStored" \in hist.events
  /\ status = 200
  /\ cache # <<>>
  /\ Cardinality(Dispatched) = 2
  /\ Cardinality(hist.attempts) >= 3

\* The handler is in the loop over the users, or past it.
InDispatch == pc \in {"getLast", "getSubs", "join", "commit"}

\* The users the loop of the invocation has finished with.
Processed == {u \in UserIDs : hist.disp[u] # "none"}

\* C30: per-user aggregation.  Once the lookups of an invocation have been
\* joined, the users of the loop are the union of the matched users of the
\* new items, each of them once; the gear list of each of them holds the new
\* items whose matched users contain the user, each once; the loop finishes
\* with the users in order, one at a time, with none twice, and has finished
\* with all of them at the join.
C30_PerUserAggregation ==
  /\ [](InDispatch =>
          /\ Range(allUsers) =
               UNION {getUsersToBeNotified(g) : g \in Range(newGear)}
          /\ \A i, j \in DOMAIN allUsers : allUsers[i] = allUsers[j] => i = j
          /\ \A u \in Range(allUsers) :
               LET userGear == getUserGear(gearToUserMap, u)
               IN  /\ Range(userGear) = MatchedItems(u)
                   /\ Len(userGear) = Cardinality(MatchedItems(u))
                   /\ userGear # <<>>
          /\ Processed = {allUsers[i] : i \in 1..(idx - 1)}
          /\ pc \in {"join", "commit"} => Processed = Range(allUsers))
  /\ [][\A u \in UserIDs :
          (hist.disp[u] # "none" /\ hist'.disp[u] # hist.disp[u]) =>
            (hist'.disp[u] = "none" /\ ~InDispatch')]_vars
  /\ [][(GetLastOk \/ GetSubsOk) =>
          /\ Processed' \ Processed \subseteq {CurrentUser}
          /\ CurrentUser \notin Processed]_vars

\* C30, witness: the loop has finished with two users, one matched by two
\* new items and one by one of them only.
C30_Witness ==
  /\ pc = "join"
  /\ Len(allUsers) = 2
  /\ Len(newGear) = 2
  /\ \E u, v \in Range(allUsers) :
       /\ Len(getUserGear(gearToUserMap, u)) = 2
       /\ Len(getUserGear(gearToUserMap, v)) = 1

\* The gear list of the stored snapshot.
StoredGear ==
  IF cache = <<>> THEN <<>> ELSE rawGearDataToGearList(cache[1])

\* The sends of an invocation to a user that are in flight.
SendsTo(i, u) == {s \in Frame(i).sends : s.user = u}

\* C31: no mutual exclusion between invocations.  A request is taken while
\* another invocation is anywhere in its cycle; an invocation that reads a
\* snapshot that is not too early goes on to the fetch, and an invocation
\* that reads a watermark below its batch watermark goes on to the sends,
\* whatever the other invocation is doing; so two invocations send one user
\* the same batch (the witness).
C31_NoMutualExclusion ==
  /\ []((probe.op = "handler" /\ probe.runs < MaxRuns
          /\ \E i \in Invocations : Free(i)) =>
            ENABLED (\E i \in Invocations : TriggerOf(i)))
  /\ [][\A i \in Invocations :
          ReadCacheOf(i) =>
            (probe'.inv[i].pc = "fetch" <=> ~TooEarly(StoredGear, now))]_vars
  /\ [][\A i \in Invocations :
          GetLastOf(i) =>
            LET u == Frame(i).allUsers[Frame(i).idx]
            IN  probe'.inv[i].pc = "getSubs" <=>
                  getLastNotifiedExpiration(u) <
                    latestExpirationOf(getUserGear(Frame(i).gearToUserMap, u))
      ]_vars
  /\ [][\A i \in Invocations :
          GetSubsOf(i) =>
            LET u == Frame(i).allUsers[Frame(i).idx]
            IN  {s \in probe'.inv[i].sends : s.user = u} =
                  SendsOf(u, getUserGear(Frame(i).gearToUserMap, u),
                          getUserSubscriptions(u))]_vars

\* C31, witness: two invocations that found the stored snapshot expired
\* have read the same watermark of a user, which is still the stored one,
\* and both have the same sends to the user in flight.
C31_Witness ==
  /\ probe.op = "handler"
  /\ cache = CacheAfterFirst
  /\ ~TooEarly(StoredGear, now)
  /\ \E u \in UserIDs :
       /\ SendsTo(1, u) # {}
       /\ SendsTo(1, u) = SendsTo(2, u)
       /\ Frame(1).wmRead[u] = Frame(2).wmRead[u]
       /\ Frame(1).wmRead[u] = getLastNotifiedExpiration(u)
       /\ lastNotified[u] = LastNotifiedAfterFirst[u]
       /\ lastNotified[u] # <<>>

\* The criteria of a filter: its name, its minimum rarity, its three
\* wildcard flags and its type, brand and ability flags.
Criteria(filter) ==
  [FilterRow(0, filter.gearName, filter.minimumRarity, filter.gearTypes,
             filter.gearBrands, filter.gearAbilities) EXCEPT !.id = 0]

\* The rows stored before the last call that equal its filter.
EqualBefore == {r \in probe.before : TableData(r) = Criteria(probe.filter)}

\* C32: filter deduplication.  After a call of tryAddFilter: if a stored
\* filter equalled the filter of the call on every criterion, the call
\* returned the id of that row and the table is as it was; if none did, the
\* call added one row, which has the criteria of the filter, and returned
\* its new id; no two stored rows are equal on every criterion.
C32_FilterDeduplication ==
  (probe.op = "tryAddFilter" /\ probe.calls > 0) =>
    /\ \A r, q \in probe.rows : TableData(r) = TableData(q) => r = q
    /\ IF EqualBefore # {}
         THEN /\ probe.rows = probe.before
              /\ probe.id \in {r.id : r \in EqualBefore}
         ELSE /\ Cardinality(probe.rows \ probe.before) = 1
              /\ probe.before \subseteq probe.rows
              /\ \A r \in probe.rows \ probe.before :
                   /\ TableData(r) = Criteria(probe.filter)
                   /\ r.id = probe.id
                   /\ \A q \in probe.before : q.id # r.id

\* The link rows of the pair of the last call.
LinksOfCall(rows) ==
  {r \in rows : r.user = probe.userID /\ r.filter = probe.filterID}

\* After a call for a user and a filter that exist there is one link row
\* of the pair and the other rows are as they were; no pair has two rows.
LinkedOnce ==
  /\ \A r, q \in probe.rows :
       (r.user = q.user /\ r.filter = q.filter) => r = q
  /\ (probe.userID \in ProbeUsers /\ probe.filterID \in ProbeFilterIDs) =>
       /\ probe.error = ""
       /\ Cardinality(LinksOfCall(probe.rows)) = 1
       /\ probe.rows \ LinksOfCall(probe.rows)
            = probe.before \ LinksOfCall(probe.before)
       /\ LinksOfCall(probe.before) # {} => probe.rows = probe.before

\* C33: user-filter linking.  A call for a user that does not
\* exist raises NoSuchUserError, whether or not the filter exists; a call
\* for a user that exists and a filter that does not raises
\* NoSuchFilterError; both leave the table as it was; after a call for a
\* user and a filter that exist the table holds one link row of the pair,
\* however many calls were made for it.
C33_UserFilterLinking ==
  (probe.op = "addFilterToUser" /\ probe.calls > 0) =>
    /\ probe.userID \notin ProbeUsers =>
         (probe.error = "NoSuchUserError" /\ probe.rows = probe.before)
    /\ (probe.userID \in ProbeUsers /\ probe.filterID \notin ProbeFilterIDs) =>
         (probe.error = "NoSuchFilterError" /\ probe.rows = probe.before)
    /\ LinkedOnce

\* C33, witness: a pair was linked a second time next to the link of
\* another pair, and the table is as it was before the call.
C33_Witness ==
  /\ probe.op = "addFilterToUser"
  /\ probe.error = ""
  /\ LinksOfCall(probe.before) # {}
  /\ Cardinality(probe.rows) = 2
  /\ probe.calls >= 3

\* The step stores a snapshot.
SnapshotWritten == "snapStored" \in hist'.events \ hist.events

\* C34: the snapshot changes only on ok.  The stored snapshot changes only
\* in the step that stores it, which an invocation takes at most once, at
\* its commit, with the payload it fetched, and which is followed by the
\* answer 200; an invocation that answers 425, 401 or 500 has left the
\* stored snapshot as it was at its start.
C34_SnapshotChangesOnlyOnOk ==
  /\ [][/\ cache' # cache => SnapshotWritten
        /\ SnapshotWritten =>
             /\ pc = "commit"
             /\ cache' = <<fetchedRaw>>
             /\ fetchedRaw \in Inventories
             /\ status' = 200
        /\ "snapStored" \in hist.events => (cache' = cache \/ pc' = "readCache")
        /\ status' \in {425, 401, 500} => cache' = cache]_vars
  /\ [](status \in {425, 401, 500} =>
          (cache = hist.cacheAtStart /\ "snapStored" \notin hist.events))
  /\ []("snapStored" \in hist.events => status = 200)

\* C34, witness: an invocation has answered 200 after replacing the
\* snapshot it found by the payload it fetched.
C34_Witness ==
  /\ status = 200
  /\ "snapStored" \in hist.events
  /\ hist.cacheAtStart # <<>>
  /\ cache # hist.cacheAtStart

\* The users the invocation has skipped.
Skipped == {u \in UserIDs : hist.disp[u] \in {"already", "nosub"}}

\* C35: skipped users keep their watermark.  A user whose batch watermark
\* is at most the stored one, and a user without subscriptions, is skipped
\* by a step that issues no watermark write; in the invocation no write of
\* the watermark of a skipped user is issued or done, and the stored
\* watermark of the user stays the one of the start of the invocation.
C35_SkippedKeepWatermark ==
  /\ [][/\ (GetLastOk /\
              latestExpirationOf(getUserGear(gearToUserMap, CurrentUser))
                <= getLastNotifiedExpiration(CurrentUser)) =>
               /\ hist'.disp[CurrentUser] = "already"
               /\ wmWrites' = wmWrites
               /\ sends' = sends
               /\ lastNotified' = lastNotified
        /\ (GetSubsOk /\ getUserSubscriptions(CurrentUser) = {}) =>
               /\ hist'.disp[CurrentUser] = "nosub"
               /\ wmWrites' = wmWrites
               /\ sends' = sends
               /\ lastNotified' = lastNotified]_vars
  /\ [](\A u \in Skipped :
          /\ \A w \in wmWrites : w.user # u
          /\ u \notin hist.written
          /\ task[u] = "none"
          /\ lastNotified[u] = hist.wmAtStart[u])

\* C35, witness: an invocation that has skipped one user as already
\* notified and has written the watermark of the other has answered 200.
C35_Witness ==
  /\ status = 200
  /\ \E u, v \in UserIDs :
       /\ hist.disp[u] = "already"
       /\ lastNotified[u] # <<>>
       /\ v \in hist.written
       /\ lastNotified[v] # hist.wmAtStart[v]

\* The step issues the write of the user's watermark.
WriteIssued(u) == \E w \in wmWrites' \ wmWrites : w.user = u

\* The step ends a send of the user as delivered or as a permanent failure,
\* no other send of the user is in flight, and none has ended otherwise.
LastSendEndsWell(u) ==
  \E s \in sends :
    /\ s.user = u
    /\ SendDelivered(s) \/ SendPermanentFailure(s)
    /\ InFlight(u) = {s}
    /\ task[u] = "pending"

\* C36: watermark advance versus send outcomes.  The write of a dispatched
\* user's watermark is issued by the step that ends the last of the user's
\* sends when every one of them has ended as delivered or as a permanent
\* failure, and by no other step; once a send of the user has ended
\* otherwise no write of the user's watermark is issued in the invocation
\* and the stored watermark stays as it was; a user whose sends have all
\* ended, none otherwise, has the write issued, also when the user has no
\* subscription left.
C36_AdvanceVersusOutcomes ==
  /\ [][\A u \in UserIDs : WriteIssued(u) <=> LastSendEndsWell(u)]_vars
  /\ [][\A s \in sends :
          (SendTransientFailure(s) \/ SendDeleteFails(s)) =>
            (task'[s.user] = "rejected" /\ wmWrites' = wmWrites)]_vars
  /\ [](\A u \in UserIDs :
          task[u] = "rejected" =>
            /\ \A w \in wmWrites : w.user # u
            /\ u \notin hist.written
            /\ lastNotified[u] = hist.wmAtStart[u])
  /\ [](\A u \in UserIDs :
          (hist.disp[u] = "sent" /\ InFlight(u) = {} /\ task[u] # "rejected") =>
            /\ task[u] = "fulfilled"
            /\ \/ \E w \in wmWrites : w.user = u /\ w.value = latest[u]
               \/ u \in hist.written
               \/ hist.fault)
  /\ [][\A w \in wmWrites :
          WatermarkWriteDone(w) => lastNotified'[w.user] = <<latest[w.user]>>]_vars

\* C36, witness: the one send of a user has ended as a permanent failure,
\* the user has no subscription left, and the user's watermark is advanced.
C36_Witness ==
  \E u \in UserIDs :
    /\ hist.disp[u] = "sent"
    /\ hist.calls[u] = 1
    /\ \E e \in Endpoints : [user |-> u, endpoint |-> e] \in pruned
    /\ getUserSubscriptions(u) = {}
    /\ u \in hist.written
    /\ lastNotified[u] # hist.wmAtStart[u]

\* C37: scope of pruning.  The step in which a send ends as a permanent
\* failure removes every subscription row with the endpoint of the send,
\* whichever user holds it, and leaves every row with another endpoint; no
\* other step of the job removes a row.
C37_PruningByEndpoint ==
  /\ [][\A s \in sends :
          SendPermanentFailure(s) =>
            /\ \A r \in subscriptions :
                 r \in subscriptions' <=> r.endpoint # s.endpoint
            /\ subscriptions' \subseteq subscriptions]_vars
  /\ [][subscriptions' # subscriptions =>
          \E s \in sends : SendPermanentFailure(s)]_vars

\* C37, witness: the permanent failure of a send to user 1 has removed the
\* row user 2 held for the same endpoint; no send to user 2 has failed, and
\* the row of user 2 with the other endpoint is stored.
C37_Witness ==
  /\ pruned = {[user |-> 1, endpoint |-> 1]}
  /\ [user |-> 2, endpoint |-> 1] \in InitialSubscriptions
  /\ subscriptions = {[user |-> 2, endpoint |-> 2]}

\* C38: concurrent registration.  When two calls of addUserPushSubscription
\* interleave, the table holds at most one row for a user and an endpoint.
C38_ConcurrentRegistration ==
  probe.op = "registering" =>
    \A r, q \in probe.rows :
      (r.user = q.user /\ r.endpoint = q.endpoint) => r.id = q.id

\* C39: non-empty work list.  In the loop over the aggregated users, in
\* whatever order the lookups were answered, getUserGear of every user of
\* the aggregation is a non-empty list of new items, so its last element
\* exists and has an expiration.
C39_NonEmptyWorkList ==
  InDispatch =>
    /\ Len(gearToUserMap) = Len(newGear)
    /\ \A u \in Range(allUsers) :
         LET userGear == getUserGear(gearToUserMap, u)
         IN  /\ Len(userGear) >= 1
             /\ userGear[Len(userGear)] \in Range(newGear)
             /\ latestExpirationOf(userGear) \in 0..MaxTime

\* C39, witness: the loop is at a user after the lookups of two new items
\* were answered in the order opposite to the one they were started in.
C39_Witness ==
  /\ pc = "getLast"
  /\ Len(newGear) = 2
  /\ gearToUserMap[1].gear = newGear[2]
  /\ Len(allUsers) = 2

\* C40: dispatch counters are consistent.  When an invocation has answered
\* 200, devicesFailed is at most devicesNotified, and numAlreadyNotified
\* plus numNoSubscriber is at most the number of users the invocation
\* finished with.
C40_CountersConsistent ==
  (status = 200 /\ pc = "returned") =>
    /\ counters.devicesFailed <= counters.devicesNotified
    /\ counters.numAlreadyNotified + counters.numNoSubscriber
         <= Cardinality(Processed)

====
